---------------------------- MODULE Spec2Model ----------------------------
(***************************************************************************)
(* clockwork-orange: plugin orchestration and wallpaper selection engine.  *)
(*                                                                         *)
(* The module holds several specifications over one set of variables:      *)
(*   SpecAdapter   the process execution adapter (one-shot and streaming)  *)
(*                 and the streaming protocol parser, driven by a child    *)
(*                 process that may do anything;                           *)
(*   SpecPlugin    a plugin process (local, wallhaven) run through the     *)
(*                 adapter, with the files and the blacklist it works on;  *)
(*   SpecBlacklist the BlacklistManager used directly;                     *)
(*   SpecSelect    fair selection across Sources (CLI and GUI);            *)
(*   SpecHistory   the HistoryManager shared by concurrent processes;      *)
(*   SpecItems     wallhaven's item loop over the runs of the plugin;      *)
(*   SpecGate      the schedule gate of the downloading plugins;           *)
(*   SpecTimer     the GUI's wallpaper timer and its worker threads;       *)
(*   SpecLoop      the CLI's scheduling loop, its wait and config watcher; *)
(*   SpecCanvas    the composite canvas of the multi-monitor setter;       *)
(*   SpecFit       the cover-fit scaling of one image for one monitor.     *)
(* Each specification leaves the variables of the other parts unchanged.   *)
(***************************************************************************)
EXTENDS Integers, Sequences, FiniteSets, TLC

VARIABLES
    \* ---- the spawned child process, as the adapter observes it
    cmd,        \* "not_found" | "dev" | "frozen": how the command line is built
    spawnOk,    \* FALSE: Popen / subprocess.run raises OSError
    errLines,   \* the lines the child writes to its diagnostic channel (stderr)
    outChunks,  \* what the child writes to its primary channel (stdout)
    exitCode,   \* the child's exit code
    \* ---- the adapter and the PluginRunner thread
    pc,         \* "init" | "streaming" | "done"
    mode,       \* "none" | "oneshot" | "stream"
    errPos,     \* number of diagnostic lines read so far
    items,      \* the items execute_plugin_stream has yielded
    events,     \* the signals PluginRunner has emitted, in order
    ret,        \* what execute_plugin returned
    \* ---- the plugin process and what it works on
    child,      \* "pending" | "exited"
    plugin,     \* "local" | "wallhaven"
    cfg,        \* the ExecutionConfig passed to run()
    fs,         \* the state of each file of Paths
    fs0,        \* fs when run() was called
    dlDir,      \* TRUE when the plugin's download directory exists
    blacklist,  \* the img_hash keys of the rows of the blacklist table
    runResult,  \* what run() returned (or that it raised)
    ops,        \* the BlacklistManager calls made so far, in order
    \* ---- fair selection
    selector,   \* "none" | "cli" (get_random_image_from_sources) | "gui" (WallpaperWorker)
    selSources, \* the Source list of the cycle
    selOrder,   \* the list after random.shuffle
    selPc,      \* "start" | "done"
    selResult,  \* what the selection gave
    \* ---- the History store
    downloads,  \* the rows of the downloads table, in id order
    calls,      \* the add_entry calls of the plugin processes, in call order
    \* ---- wallhaven's item loop over the runs
    remote,     \* the bytes each URL serves
    whDisk,     \* the URLs whose file is in the download directory
    fetched,    \* how many times each URL's image was downloaded
    whCalls,    \* the _process_item calls made so far
    \* ---- the schedule gate of a plugin and its output area
    marker,     \* .last_run: missing, corrupt, or the hour it was written
    now,        \* the clock, in hours
    area,       \* the image files of the output area, oldest first
    gCfg,       \* the plugin the area belongs to and its saved config
    gRun,       \* the last run() of a gated plugin and what it did
    gRuns,      \* the runs made so far
    gTicks,     \* the number of the last run after which the clock was moved
    \* ---- the GUI's wallpaper timer and its worker threads
    workers,          \* every WallpaperWorker thread created, in order
    wallpaper_worker, \* self.wallpaper_worker: its index in workers, 0 for None
    tTicks,           \* the timer ticks fired so far
    \* ---- the CLI's scheduling loop (cycle_dynamic_plugins)
    lpc,                \* "check" | "cycle" | "wait" | "returned" | "raised"
    shutdown_requested, \* the module's shutdown flag
    change_event,       \* config_change_event: TRUE when set
    observer,           \* "running" | "stopped": the watchdog Observer
    cycle_count,        \* cycle_count
    targets,            \* "desktop" | "lockscreen" | "dual"
    loaded,             \* the config the cycle in flight loaded
    sleep_duration,     \* sleep_duration of the wait in progress
    waited,             \* the seconds the wait in progress has waited
    wake,               \* why the last wait ended
    cfgFile,            \* the configuration file on disk
    notes,              \* filesystem events not yet handed to the watcher
    fileOps,            \* the file operations made in the watched directory
    recycles,           \* the waits a detected change has cut short
    writes,             \* the writes of the configuration file begun
    \* ---- the multi-monitor compositor
    monitors,           \* the monitor rectangles screeninfo reported
    canvas,             \* what set_wallpaper_multi_monitor composed
    fit,                \* the last cover-fit: the sizes and the crop box
    whRun,              \* the last wallhaven run made with a failing store
    runner              \* the PluginRunner of the plugin dialog, a manual run

childVars   == <<cmd, spawnOk, errLines, outChunks, exitCode>>
adapterVars == <<pc, mode, errPos, items, events, ret>>
pluginVars  == <<child, plugin, cfg, fs, fs0, dlDir, blacklist, runResult>>
selVars     == <<selector, selSources, selOrder, selPc, selResult>>
histVars    == <<downloads, calls>>

\* The variables outside the plugin process and the adapter.
itemVars    == <<remote, whDisk, fetched, whCalls>>

gateVars    == <<marker, now, area, gCfg, gRun, gRuns, gTicks>>

\* The variables of the parts added around the plugin engine.
timerVars   == <<workers, wallpaper_worker, tTicks>>

\* The CLI's scheduling loop and the compositor.
loopVars    == <<lpc, shutdown_requested, change_event, observer, cycle_count,
                 targets, loaded, sleep_duration, waited, wake, cfgFile,
                 notes, fileOps, recycles, writes>>
canvasVars  == <<monitors, canvas>>
tailVars    == <<fit, whRun, runner>>
lateVars    == <<loopVars, canvasVars, tailVars>>

moreVars    == <<itemVars, gateVars, timerVars, lateVars>>

\* The plugin engine itself.
baseVars    == <<childVars, adapterVars, pluginVars, ops, selVars, histVars>>

\* What the item loop and the gate each leave alone among moreVars.
besidesItems == <<gateVars, timerVars, lateVars>>
besidesGate  == <<itemVars, timerVars, lateVars>>
besidesTimer == <<itemVars, gateVars, lateVars>>
besidesLoop  == <<itemVars, gateVars, timerVars, canvasVars, tailVars>>
besidesCanvas == <<itemVars, gateVars, timerVars, loopVars, tailVars>>
besidesFit   == <<itemVars, gateVars, timerVars, loopVars, canvasVars,
                 whRun, runner>>

restVars    == <<ops, selVars, histVars, moreVars>>

vars == <<childVars, adapterVars, pluginVars, ops, selVars, histVars, moreVars>>

-----------------------------------------------------------------------------
(* Bounds *)

MaxLines == 2

MaxTargets == 2

MaxOps == 3

MaxSources == 3

MaxCalls == 3

MaxItems == 4

MaxRuns == 2

MaxTimerTicks == 3

MaxPlugins == 2

MaxCycles == 2

MaxFileOps == 2

MaxMonitors == 2

-----------------------------------------------------------------------------
(* Python values *)

\* A key a dict does not hold.
NoKey == "<absent>"

\* A result dict: the keys the adapter and its callers read.
MkResult(st, p, m) == [status |-> st, path |-> p, message |-> m]

EmptyDict == MkResult(NoKey, NoKey, NoKey)

\* A Python value, tagged with its type. "raise" is an exception that
\* propagates to the caller instead of a value.
PyDict(r)  == [t |-> "dict",  line |-> <<>>, res |-> r]
PyStr(l)   == [t |-> "str",   line |-> l,    res |-> EmptyDict]
PyOther    == [t |-> "other", line |-> <<>>, res |-> EmptyDict]
PyRaise    == [t |-> "raise", line |-> <<>>, res |-> EmptyDict]
NoRet      == [t |-> "unset", line |-> <<>>, res |-> EmptyDict]

-----------------------------------------------------------------------------
(* Text.  A line is the sequence of the pieces between its "::" delimiters *)
(* (what line.split("::") returns); a piece holds no "::".                 *)

\* str.rstrip(), str.lstrip() and str.strip() on the pieces used.
RStrip(s) ==
    CASE s = " 42 "  -> " 42"
      [] s = " 150 " -> " 150"
      [] s = " abc " -> " abc"
      [] s = " 95 "  -> " 95"
      [] s = " 100 " -> " 100"
      [] s = " 0 "   -> " 0"
      [] s = "  "    -> ""
      [] OTHER       -> s

LStrip(s) ==
    CASE s = " 42 "        -> "42 "
      [] s = " 42"         -> "42"
      [] s = " 150 "       -> "150 "
      [] s = " 150"        -> "150"
      [] s = " abc "       -> "abc "
      [] s = " abc"        -> "abc"
      [] s = " halfway"    -> "halfway"
      [] s = " over"       -> "over"
      [] s = " /tmp/x.jpg" -> "/tmp/x.jpg"
      [] s = " 95 "        -> "95 "
      [] s = " 95"         -> "95"
      [] s = " 100 "       -> "100 "
      [] s = " 100"        -> "100"
      [] s = " 0 "         -> "0 "
      [] s = " 0"          -> "0"
      [] s = " Cleaning up old files..." -> "Cleaning up old files..."
      [] s = " Done!"      -> "Done!"
      [] s = " Searching API for 'landscape'..." -> "Searching API for 'landscape'..."
      [] s = "  "          -> ""
      [] OTHER             -> s

StripPiece(s) == LStrip(RStrip(s))

\* line.strip(): whitespace goes from the two ends of the line only.
StripLine(l) ==
    IF Len(l) = 1 THEN <<StripPiece(l[1])>>
    ELSE [i \in 1..Len(l) |->
            IF i = 1 THEN LStrip(l[1])
            ELSE IF i = Len(l) THEN RStrip(l[i])
            ELSE l[i]]

\* int(s): the integer, or a ValueError.
IsIntText(s) == s \in {"42", "150", "95", "100", "0"}

IntOf(s) ==
    CASE s = "42"  -> 42
      [] s = "150" -> 150
      [] s = "95"  -> 95
      [] s = "100" -> 100
      [] OTHER     -> 0

\* The diagnostic lines a child may write.
LProgress == <<"", "PROGRESS", " 42 ", " halfway">>
LSaved    == <<"", "IMAGE_SAVED", " /tmp/x.jpg">>
LPlain    == <<"plain log">>
LOver     == <<"", "PROGRESS", " 150 ", " over">>
LNonInt   == <<"", "PROGRESS", " abc ", " over">>
LShort    == <<"", "PROGRESS", " 42 ">>
LBlank    == <<"  ">>

LineSet == {LProgress, LSaved, LPlain, LOver, LNonInt, LShort, LBlank}

SeqsUpTo(S, n) == UNION {[1..k -> S] : k \in 0..n}

\* What a child may leave on its primary channel: a sequence of chunks, each
\* free text or one serialized JSON value.
Text          == [k |-> "text", res |-> EmptyDict]
JsonDict(r)   == [k |-> "json_dict", res |-> r]
JsonOther     == [k |-> "json_other", res |-> EmptyDict]

SuccessX == MkResult("success", "/tmp/x.jpg", NoKey)
ErrorX   == MkResult("error", NoKey, "plugin failed")

StdoutSet ==
    { <<>>, <<Text>>, <<JsonOther>>, <<JsonDict(EmptyDict)>>,
      <<JsonDict(SuccessX)>>, <<JsonDict(ErrorX)>>,
      <<Text, JsonDict(SuccessX)>> }

\* json.loads(stdout): one JSON value and nothing else, or JSONDecodeError.
JsonDecodes(out) == Len(out) = 1 /\ out[1].k \in {"json_dict", "json_other"}

json_loads(out) ==
    IF out[1].k = "json_dict" THEN PyDict(out[1].res) ELSE PyOther


-----------------------------------------------------------------------------
(* Process Execution Adapter: PluginManager.execute_plugin *)

ErrorResult(m) == PyDict(MkResult("error", NoKey, m))

\* execute_plugin(plugin_name, config): subprocess.run(check=True) raises
\* OSError when the process cannot be spawned and CalledProcessError on a
\* non-zero exit; json.loads raises JSONDecodeError.  The value json.loads
\* gives is returned as it is, dict or not.
execute_plugin(c, ok, out, code) ==
    IF c = "not_found" THEN ErrorResult("Plugin not found")
    ELSE IF ~ok THEN ErrorResult("spawn failed")            \* except Exception
    ELSE IF code # 0 THEN ErrorResult("Execution failed")   \* except CalledProcessError
    ELSE IF ~JsonDecodes(out) THEN ErrorResult("Invalid output")
    ELSE json_loads(out)

\* execute_plugin_stream: the item yielded once the diagnostic channel is at
\* EOF and the process has exited.
stream_terminal(out, code) ==
    IF code # 0 THEN ErrorResult("Plugin execution failed with code")
    ELSE IF ~JsonDecodes(out) THEN ErrorResult("Invalid JSON output")
    ELSE json_loads(out)

\* execute_plugin_stream: the items yielded for one line read from stderr.
\* A line that was read holds at least its newline, so `if line:` passes and
\* line.strip() is yielded, also when it is then empty.
stream_line_skip_blank(l) ==
    IF StripLine(l) = <<"">> THEN <<>> ELSE <<PyStr(StripLine(l))>>

stream_line(l) == <<PyStr(StripLine(l))>>

-----------------------------------------------------------------------------
(* Streaming Protocol Parser: PluginRunner *)

NoLine == <<>>

LogLine(l)       == [e |-> "log", line |-> l, pct |-> 0, msg |-> NoKey,
                     path |-> NoLine, res |-> EmptyDict]
Progress(n, m)   == [e |-> "progress", line |-> NoLine, pct |-> n, msg |-> m,
                     path |-> NoLine, res |-> EmptyDict]
ArtifactSaved(p) == [e |-> "artifact", line |-> NoLine, pct |-> 0, msg |-> NoKey,
                     path |-> p, res |-> EmptyDict]
Finished(r)      == [e |-> "finished", line |-> NoLine, pct |-> 0, msg |-> NoKey,
                     path |-> NoLine, res |-> r]

\* "::M::" in line: M is a piece with a delimiter on both sides.
HasMarker(l, m) == \E i \in 2..(Len(l) - 1) : l[i] = m

\* _parse_progress: parts = line.split("::"); with four parts or more,
\* int(parts[2].strip()) and parts[3].strip() are emitted; any exception
\* (a ValueError of int) is swallowed.
parse_progress(l) ==
    IF Len(l) >= 4 /\ IsIntText(StripPiece(l[3]))
    THEN <<Progress(IntOf(StripPiece(l[3])), StripPiece(l[4]))>>
    ELSE <<>>

\* _parse_image_saved: line.split("::IMAGE_SAVED::")[1].strip(), the text
\* between the first marker and the next one (or the end of the line).
parse_image_saved(l) ==
    LET first == CHOOSE i \in 2..(Len(l) - 1) :
                    /\ l[i] = "IMAGE_SAVED"
                    /\ \A j \in 2..(i - 1) : l[j] # "IMAGE_SAVED"
        later == {j \in (first + 1)..(Len(l) - 1) : l[j] = "IMAGE_SAVED"}
        stop  == IF later = {} THEN Len(l) + 1
                 ELSE CHOOSE j \in later : \A k \in later : j <= k
        rest  == SubSeq(l, first + 1, stop - 1)
    IN  <<ArtifactSaved(IF rest = <<>> THEN <<"">> ELSE StripLine(rest))>>

\* _handle_log_line: the line is always logged, then checked for markers.
handle_log_line(l) ==
    <<LogLine(l)>>
    \o (IF HasMarker(l, "PROGRESS") THEN parse_progress(l) ELSE <<>>)
    \o (IF HasMarker(l, "IMAGE_SAVED") THEN parse_image_saved(l) ELSE <<>>)

\* str(item) of a value that is neither a dict nor a str.
StrOfOther == <<"None">>

\* PluginRunner.run, the loop body: a dict is kept as the final result,
\* anything else is handled as a log line.
runner_item(item) ==
    IF item.t = "dict" THEN <<>>
    ELSE IF item.t = "str" THEN handle_log_line(item.line)
    ELSE handle_log_line(StrOfOther)

\* PluginRunner.run, after the loop: the last dict seen, if it is truthy.
runner_finish(its) ==
    LET dicts == {i \in 1..Len(its) : its[i].t = "dict"}
        final == IF dicts = {} THEN EmptyDict
                 ELSE its[CHOOSE i \in dicts : \A j \in dicts : j <= i].res
    IN  IF final # EmptyDict THEN Finished(final)
        ELSE Finished(MkResult("error", NoKey, "No result returned"))

-----------------------------------------------------------------------------
(* Files *)

Paths == {"a.jpg", "b.png"}

\* "file": a readable regular file that can be removed.
\* "unreadable": exists, open() fails, os.remove succeeds.
\* "undeletable": exists and is readable, os.remove fails.
\* "dir": a directory: open() and os.remove fail, shutil.rmtree succeeds.
FileStates == {"missing", "file", "unreadable", "undeletable", "dir"}

PathExists(f, p) == f[p] # "missing"
CanOpen(f, p)    == f[p] \in {"file", "undeletable"}
CanRemove(f, p)  == f[p] \in {"file", "unreadable"}

\* The bytes of each file, and the two digests taken of them.
Content(p) == CASE p = "a.jpg" -> "bytes_a" [] OTHER -> "bytes_b"

Sha256(b) == CASE b = "bytes_a" -> "sha256_a" [] OTHER -> "sha256_b"

NoHash == "None"

Hashes == {Sha256(Content(p)) : p \in Paths}

\* One print(): the channel it goes to and the line.
Out(text) == [ch |-> "out", line |-> <<text>>]
Err(text) == [ch |-> "err", line |-> <<text>>]

MsgNotFound(p) ==
    CASE p = "a.jpg" -> "File not found: a.jpg" [] OTHER -> "File not found: b.png"
MsgRemoved(p) ==
    CASE p = "a.jpg" -> "Blacklisted and removed: a.jpg"
      [] OTHER -> "Blacklisted and removed: b.png"
MsgRemoveError(p) ==
    CASE p = "a.jpg" -> "Error removing file a.jpg"
      [] OTHER -> "Error removing file b.png"
MsgHashError(p) ==
    CASE p = "a.jpg" -> "Error hashing image a.jpg"
      [] OTHER -> "Error hashing image b.png"
MsgThumbError(p) ==
    CASE p = "a.jpg" -> "Error generating thumbnail for a.jpg"
      [] OTHER -> "Error generating thumbnail for b.png"
MsgCannotBlacklist == "Cannot blacklist: no hash or file provided."

-----------------------------------------------------------------------------
(* Content Hash Store: BlacklistManager *)

\* get_image_hash(path): the SHA-256 of the bytes, or None (with a line on
\* stderr) when the file cannot be opened.
get_image_hash(f, p) ==
    IF CanOpen(f, p)
    THEN [hash |-> Sha256(Content(p)), log |-> <<>>]
    ELSE [hash |-> NoHash, log |-> <<Err(MsgHashError(p))>>]

\* is_blacklisted(hash): a row with that key exists.
is_blacklisted(bl, h) == h \in bl

\* generate_thumbnail(path): only its stderr line matters here; a thumbnail
\* of None is stored as NULL.
generate_thumbnail_log(f, p) ==
    IF CanOpen(f, p) THEN <<>> ELSE <<Err(MsgThumbError(p))>>

\* add_to_blacklist(file_path=p): hash and thumbnail are taken from the file
\* when it exists; without a hash nothing is stored; INSERT OR REPLACE keeps
\* one row per img_hash.
add_to_blacklist_uncommitted(f, bl, p) ==
    [bl |-> bl, log |-> <<>>]

add_to_blacklist(f, bl, p) ==
    LET h == IF PathExists(f, p) THEN get_image_hash(f, p)
             ELSE [hash |-> NoHash, log |-> <<>>]
        t == IF PathExists(f, p) THEN generate_thumbnail_log(f, p) ELSE <<>>
    IN  IF h.hash = NoHash
        THEN [bl |-> bl, log |-> h.log \o t \o <<Err(MsgCannotBlacklist)>>]
        ELSE [bl |-> bl \cup {h.hash}, log |-> h.log \o t]

\* remove_from_blacklist(hash): DELETE of the row with that key.
remove_from_blacklist(bl, h) == bl \ {h}

\* process_files(paths): for each path in turn, when it exists:
\* add_to_blacklist(file_path=path), then os.remove(path), a success printed
\* on stdout and a failure on stderr; a missing path is printed on stderr.
RECURSIVE process_files_from(_, _, _, _, _)
process_files_from(i, paths, f, bl, log) ==
    IF i > Len(paths) THEN [fs |-> f, bl |-> bl, log |-> log]
    ELSE LET p == paths[i] IN
         IF PathExists(f, p)
         THEN LET a == add_to_blacklist(f, bl, p) IN
              IF CanRemove(f, p)
              THEN process_files_from(i + 1, paths, [f EXCEPT ![p] = "missing"],
                                      a.bl, log \o a.log \o <<Out(MsgRemoved(p))>>)
              ELSE process_files_from(i + 1, paths, f, a.bl,
                                      log \o a.log \o <<Err(MsgRemoveError(p))>>)
         ELSE process_files_from(i + 1, paths, f, bl,
                                 log \o <<Err(MsgNotFound(p))>>)

process_files(paths, f, bl) == process_files_from(1, paths, f, bl, <<>>)

-----------------------------------------------------------------------------
(* Plugins: run(config) *)

\* Paths outside Paths that a config may name.
PicsDir      == "/pics"         \* an existing directory
GoneDir      == "/gone"         \* a path that does not exist
WallhavenDir == "/wallhaven"    \* the wallhaven download_dir

OnDisk(f, d, p) ==
    CASE p = PicsDir      -> TRUE
      [] p = WallhavenDir -> d
      [] p \in Paths      -> PathExists(f, p)
      [] OTHER            -> FALSE

\* What a run leaves: the value returned (or PyRaise), the files, the
\* download directory, the blacklist, and the lines printed.
RunOutcome(r, f, d, bl, log) ==
    [res |-> r, fs |-> f, dlDir |-> d, bl |-> bl, log |-> log]

\* LocalPlugin.run
local_run(c, f, d, bl) ==
    IF c.path = NoKey
    THEN RunOutcome(ErrorResult("Missing 'path' in configuration"), f, d, bl, <<>>)
    ELSE IF c.action = "process_blacklist"
    THEN LET r == process_files(c.targets, f, bl) IN
         RunOutcome(PyDict(MkResult("success", NoKey, "Blacklist processed")),
                    r.fs, d, r.bl,
                    <<Err("[Local] Processing blacklist...")>> \o r.log)
    ELSE IF ~OnDisk(f, d, c.path)
    THEN RunOutcome(ErrorResult("Path not found"), f, d, bl, <<>>)
    ELSE RunOutcome(PyDict(MkResult("success", c.path, NoKey)), f, d, bl, <<>>)

\* WallhavenPlugin._perform_reset: every entry of the directory is removed
\* in iteration order; the first failure ends the loop and is printed.
RECURSIVE perform_reset_from(_, _, _)
perform_reset_from(i, order, f) ==
    IF i > Len(order) THEN [fs |-> f, log |-> <<>>]
    ELSE LET p == order[i] IN
         IF ~PathExists(f, p) THEN perform_reset_from(i + 1, order, f)
         ELSE IF f[p] = "undeletable"
         THEN [fs |-> f, log |-> <<Err("[Wallhaven] Reset failed")>>]
         ELSE perform_reset_from(i + 1, order, [f EXCEPT ![p] = "missing"])

perform_reset(order, f) ==
    LET r == perform_reset_from(1, order, f) IN
    [fs |-> r.fs, log |-> <<Err("[Wallhaven] Resetting directory...")>> \o r.log]

\* The lines of a run whose API search fails: _process_queries prints the
\* progress of the one query and goes on; run prints the two closing
\* progress lines.
SearchLog ==
    << [ch |-> "err", line |-> <<"", "PROGRESS", " 0 ",
                                 " Searching API for 'landscape'...">>],
       Err("[Wallhaven] API Error for 'landscape'") >>

ClosingLog ==
    << [ch |-> "err", line |-> <<"", "PROGRESS", " 95 ",
                                 " Cleaning up old files...">>],
       [ch |-> "err", line |-> <<"", "PROGRESS", " 100 ", " Done!">>] >>

\* WallhavenPlugin.run.  download_dir.mkdir comes first; int(limit) raises
\* ValueError on a limit that is no number; c.gate is what _should_run
\* answers.
wallhaven_run(c, f, d, bl) ==
    IF ~c.limitOk THEN RunOutcome(PyRaise, f, TRUE, bl, <<>>)
    ELSE IF c.action = "process_blacklist"
    THEN LET r == process_files(c.targets, f, bl) IN
         RunOutcome(PyDict(MkResult("success", NoKey, "Blacklist processed")),
                    r.fs, TRUE, r.bl,
                    <<Err("[Wallhaven] Processing blacklist...")>> \o r.log)
    ELSE LET rs == IF c.reset THEN perform_reset(c.order, f)
                   ELSE [fs |-> f, log |-> <<>>]
         IN  IF ~c.force /\ ~c.gate
             THEN RunOutcome(PyDict(MkResult("success", WallhavenDir, NoKey)),
                             rs.fs, TRUE, bl,
                             rs.log \o <<Err("[Wallhaven] Skipping run")>>)
             ELSE RunOutcome(PyDict(MkResult("success", WallhavenDir, NoKey)),
                             rs.fs, TRUE, bl,
                             rs.log \o SearchLog \o ClosingLog)

plugin_run(pl, c, f, d, bl) ==
    IF pl = "local" THEN local_run(c, f, d, bl) ELSE wallhaven_run(c, f, d, bl)

-----------------------------------------------------------------------------
(* The plugin process: its two entry points *)

SelectCh(log, chs) == SelectSeq(log, LAMBDA e : e.ch \in chs)

LinesOf(log) == [i \in 1..Len(log) |-> log[i].line]

TextOf(log) == [i \in 1..Len(log) |-> Text]

\* An entry point without the except clause: an exception of run() ends
\* the process with a traceback and nothing on stdout but run()'s prints.
plugin_main_uncaught(o) ==
    [ out  |-> TextOf(SelectCh(o.log, {"out"}))
               \o (IF o.res.t = "raise" THEN <<>> ELSE <<JsonDict(o.res.res)>>),
      err  |-> LinesOf(SelectCh(o.log, {"err"})),
      code |-> IF o.res.t = "raise" THEN 1 ELSE 0 ]

\* PluginBase.main (python plugin.py --config ...): run() prints where it
\* prints; the result, or the error made of an exception, is printed on
\* stdout after it; an exception exits 1.
plugin_main(o) ==
    [ out  |-> TextOf(SelectCh(o.log, {"out"}))
               \o <<JsonDict(IF o.res.t = "raise"
                             THEN MkResult("error", NoKey, "str(e)")
                             ELSE o.res.res)>>,
      err  |-> LinesOf(SelectCh(o.log, {"err"})),
      code |-> IF o.res.t = "raise" THEN 1 ELSE 0 ]

\* main, --run-plugin (the frozen application): sys.stdout is sys.stderr
\* while run() runs, so every print goes to stderr; the result is printed on
\* the real stdout afterwards.
run_plugin_handler(o) ==
    [ out  |-> <<JsonDict(IF o.res.t = "raise"
                          THEN MkResult("error", NoKey, "str(e)")
                          ELSE o.res.res)>>,
      err  |-> LinesOf(o.log),
      code |-> IF o.res.t = "raise" THEN 1 ELSE 0 ]

\* The plugin process runs from its start to its exit.
PluginProcess ==
    /\ child = "pending"
    /\ LET o == plugin_run(plugin, cfg, fs, dlDir, blacklist)
           x == IF cmd = "frozen" THEN run_plugin_handler(o) ELSE plugin_main(o)
       IN  /\ runResult' = o.res
           /\ fs' = o.fs
           /\ dlDir' = o.dlDir
           /\ blacklist' = o.bl
           /\ outChunks' = x.out
           /\ errLines' = x.err
           /\ exitCode' = x.code
    /\ child' = "exited"
    /\ UNCHANGED <<cmd, spawnOk, adapterVars, plugin, cfg, fs0, restVars>>

\* The state of the parts a specification does not use.
AdapterIdle ==
    /\ pc = "init"
    /\ mode = "none"
    /\ errPos = 0
    /\ items = <<>>
    /\ events = <<>>
    /\ ret = NoRet

NoConfig ==
    [path |-> NoKey, action |-> NoKey, targets |-> <<>>, reset |-> FALSE,
     force |-> FALSE, gate |-> FALSE, limitOk |-> TRUE, order |-> <<>>]

NoSelection ==
    /\ selector = "none"
    /\ selSources = <<>>
    /\ selOrder = <<>>
    /\ selPc = "start"
    /\ selResult = [t |-> "unset", src |-> NoKey, path |-> NoKey]

NoHistory ==
    /\ downloads = <<>>
    /\ calls = <<>>

NoItems ==
    /\ remote = [u \in {"u1", "u2"} |-> "bytes_a"]
    /\ whDisk = {}
    /\ fetched = [u \in {"u1", "u2"} |-> 0]
    /\ whCalls = 0

\* The clock reading every behaviour starts from, in hours.
StartHour == 1000

\* What .last_run holds: nothing (no file), something that cannot be read
\* as a float, or the time of the last run.
MarkerMissing == [k |-> "missing", at |-> 0]
MarkerCorrupt == [k |-> "corrupt", at |-> 0]
MarkerAt(t)   == [k |-> "time", at |-> t]

NoGateRun ==
    [st |-> "none", force |-> FALSE, reset |-> FALSE,
     status |-> NoKey, path |-> NoKey, gate |-> "none",
     seen |-> MarkerMissing]

NoGate ==
    /\ marker = MarkerMissing
    /\ now = StartHour
    /\ area = <<>>
    /\ gCfg = [pl |-> "wallhaven", interval |-> "daily", maxFiles |-> 100,
               deps |-> TRUE]
    /\ gRun = NoGateRun
    /\ gRuns = 0
    /\ gTicks = 0

NoTimer ==
    /\ workers = <<>>
    /\ wallpaper_worker = 0
    /\ tTicks = 0

\* A config as the loop uses it: what its default_wait key holds.
\* An empty dict has no such key.
Config(dw) == [dw |-> dw]
EmptyConfig == Config("absent")

\* The configuration file: its content, and whether a writer is half way
\* through it.
File(st, dw) == [st |-> st, dw |-> dw]

NoLoop ==
    /\ lpc = "check"
    /\ shutdown_requested = FALSE
    /\ change_event = FALSE
    /\ observer = "running"
    /\ cycle_count = 0
    /\ targets = "desktop"
    /\ loaded = EmptyConfig
    /\ sleep_duration = 0
    /\ waited = 0
    /\ wake = "start"
    /\ cfgFile = File("complete", "absent")
    /\ notes = <<>>
    /\ fileOps = 0
    /\ recycles = 0
    /\ writes = 0

\* No canvas composed yet.
BlankCanvas ==
    [st |-> "none", min_x |-> 0, min_y |-> 0, w |-> 0, h |-> 0, n |-> 0,
     tiles |-> <<>>, file |-> FALSE, applied |-> FALSE, ret |-> "none"]

NoCanvas ==
    /\ monitors = <<>>
    /\ canvas = BlankCanvas

\* No image fitted yet.
NoFit == fit = [st |-> "none", iw |-> 0, ih |-> 0, mw |-> 0, mh |-> 0,
                new_w |-> 0, new_h |-> 0, left |-> 0, top |-> 0]

\* No run with a failing store yet.
NoStoreRun == whRun = [down |-> "none", status |-> "none"]

\* No manual run yet.
NoRunner == runner = [st |-> "none", k |-> 0]

NoTail == NoFit /\ NoStoreRun /\ NoRunner

NoLate == NoLoop /\ NoCanvas /\ NoTail

NoMore == NoItems /\ NoGate /\ NoTimer /\ NoLate

NoPlugin ==
    /\ plugin = "local"
    /\ cfg = NoConfig
    /\ fs = [p \in Paths |-> "missing"]
    /\ fs0 = fs
    /\ dlDir = FALSE
    /\ blacklist = {}
    /\ runResult = NoRet
    /\ ops = <<>>
    /\ NoSelection
    /\ NoHistory
    /\ NoMore

-----------------------------------------------------------------------------
(* Actions of the adapter *)

\* A one-shot call: execute_plugin runs to its return.
ExecutePlugin ==
    /\ pc = "init"
    /\ child = "exited"
    /\ mode' = "oneshot"
    /\ ret' = execute_plugin(cmd, spawnOk, outChunks, exitCode)
    /\ pc' = "done"
    /\ UNCHANGED <<childVars, pluginVars, restVars, errPos, items, events>>

\* PluginRunner.run starts execute_plugin_stream: the plugin is looked up
\* and the process spawned; on a failure the generator yields one error
\* dict and ends, and the runner emits finished.
StreamStart ==
    /\ pc = "init"
    /\ child = "exited"
    /\ mode' = "stream"
    /\ IF cmd = "not_found" \/ ~spawnOk
       THEN LET it == IF cmd = "not_found"
                      THEN ErrorResult("Plugin not found")
                      ELSE ErrorResult("spawn failed")
            IN  /\ items' = <<it>>
                /\ events' = runner_item(it) \o <<runner_finish(<<it>>)>>
                /\ pc' = "done"
       ELSE /\ pc' = "streaming"
            /\ UNCHANGED <<items, events>>
    /\ UNCHANGED <<childVars, pluginVars, restVars, errPos, ret>>

\* One stderr line is read, yielded stripped, and handled by the runner.
StreamReadLine ==
    /\ pc = "streaming"
    /\ errPos < Len(errLines)
    /\ LET its == stream_line(errLines[errPos + 1])
       IN  /\ items' = items \o its
           /\ events' = events \o (IF its = <<>> THEN <<>> ELSE runner_item(its[1]))
    /\ errPos' = errPos + 1
    /\ UNCHANGED <<childVars, pluginVars, restVars, pc, mode, ret>>

\* EOF on stderr and the process has exited: stdout is read once, the
\* terminal item is yielded, the generator ends and the runner emits
\* finished.
StreamFinish ==
    /\ pc = "streaming"
    /\ errPos = Len(errLines)
    /\ LET it == stream_terminal(outChunks, exitCode)
           its == Append(items, it)
       IN  /\ items' = its
           /\ events' = events \o runner_item(it) \o <<runner_finish(its)>>
    /\ pc' = "done"
    /\ UNCHANGED <<childVars, pluginVars, restVars, mode, errPos, ret>>

\* The child process does whatever it does: any diagnostic lines, any
\* primary output, any exit code, or no process at all.
InitAdapter ==
    /\ cmd \in {"not_found", "dev", "frozen"}
    /\ spawnOk \in BOOLEAN
    /\ errLines \in SeqsUpTo(LineSet, MaxLines)
    /\ outChunks \in StdoutSet
    /\ exitCode \in {0, 1}
    /\ (cmd = "not_found" \/ ~spawnOk) =>
            (errLines = <<>> /\ outChunks = <<>> /\ exitCode = 1)
    /\ cmd = "not_found" => spawnOk
    /\ AdapterIdle
    /\ child = "exited"
    /\ NoPlugin

NextAdapter == ExecutePlugin \/ StreamStart \/ StreamReadLine \/ StreamFinish

SpecAdapter == InitAdapter /\ [][NextAdapter]_vars

-----------------------------------------------------------------------------
(* A plugin run through the adapter *)

Orders == {<<"a.jpg", "b.png">>, <<"b.png", "a.jpg">>}

LocalConfigs ==
    { [NoConfig EXCEPT !.path = p, !.action = a, !.targets = t] :
        p \in {NoKey, PicsDir, GoneDir, "a.jpg"},
        a \in {NoKey, "process_blacklist"},
        t \in SeqsUpTo(Paths, MaxTargets) }

WallhavenConfigs ==
    { [NoConfig EXCEPT !.action = "process_blacklist", !.targets = t,
                       !.limitOk = l, !.force = TRUE] :
        t \in SeqsUpTo(Paths, MaxTargets), l \in BOOLEAN }
    \cup
    { [NoConfig EXCEPT !.reset = r, !.force = f, !.gate = g, !.order = o] :
        r \in BOOLEAN, f \in BOOLEAN, g \in BOOLEAN, o \in Orders }

InitPlugin ==
    /\ cmd \in {"dev", "frozen"}
    /\ spawnOk = TRUE
    /\ errLines = <<>>
    /\ outChunks = <<>>
    /\ exitCode = 0
    /\ AdapterIdle
    /\ child = "pending"
    /\ plugin \in {"local", "wallhaven"}
    /\ cfg \in (IF plugin = "local" THEN LocalConfigs ELSE WallhavenConfigs)
    /\ cfg.action # "process_blacklist" => cfg.targets = <<>>
    /\ fs \in [Paths -> FileStates]
    /\ fs0 = fs
    /\ dlDir \in BOOLEAN
    /\ blacklist = {}
    /\ runResult = NoRet
    /\ ops = <<>>
    /\ NoSelection
    /\ NoHistory
    /\ NoMore

NextPlugin ==
    PluginProcess \/ ExecutePlugin \/ StreamStart \/ StreamReadLine \/ StreamFinish

SpecPlugin == InitPlugin /\ [][NextPlugin]_vars

-----------------------------------------------------------------------------
(* The blacklist store used directly (plugins, the blacklist tab) *)

NoChild ==
    /\ cmd = "dev"
    /\ spawnOk = TRUE
    /\ errLines = <<>>
    /\ outChunks = <<>>
    /\ exitCode = 0
    /\ child = "exited"

AddOp(p)    == [op |-> "add", path |-> p, hash |-> NoHash]
RemoveOp(h) == [op |-> "remove", path |-> NoKey, hash |-> h]

\* BlacklistManager.add_to_blacklist(file_path=p)
AddToBlacklist(p) ==
    /\ Len(ops) < MaxOps
    /\ blacklist' = add_to_blacklist(fs, blacklist, p).bl
    /\ ops' = Append(ops, AddOp(p))
    /\ UNCHANGED <<childVars, adapterVars, child, plugin, cfg, fs, fs0, dlDir,
                   runResult, selVars, histVars, moreVars>>

\* BlacklistManager.remove_from_blacklist(h)
RemoveFromBlacklist(h) ==
    /\ Len(ops) < MaxOps
    /\ blacklist' = remove_from_blacklist(blacklist, h)
    /\ ops' = Append(ops, RemoveOp(h))
    /\ UNCHANGED <<childVars, adapterVars, child, plugin, cfg, fs, fs0, dlDir,
                   runResult, selVars, histVars, moreVars>>

InitBlacklist ==
    /\ NoChild
    /\ AdapterIdle
    /\ plugin = "local"
    /\ cfg = NoConfig
    /\ fs \in [Paths -> FileStates]
    /\ fs0 = fs
    /\ dlDir = FALSE
    /\ blacklist = {}
    /\ runResult = NoRet
    /\ ops = <<>>
    /\ NoSelection
    /\ NoHistory
    /\ NoMore

NextBlacklist ==
    \/ \E p \in Paths : AddToBlacklist(p)
    \/ \E h \in Hashes : RemoveFromBlacklist(h)

SpecBlacklist == InitBlacklist /\ [][NextBlacklist]_vars

-----------------------------------------------------------------------------
(* Fair selection across Sources *)

\* IMAGE_EXTENSIONS of clockwork-orange.py
IMAGE_EXTENSIONS ==
    {".jpg", ".jpeg", ".png", ".bmp", ".gif", ".tiff", ".webp", ".svg"}

\* str.lower() on the suffixes in use
Lower(sfx) ==
    CASE sfx = ".JPG" -> ".jpg"
      [] sfx = ".PNG" -> ".png"
      [] OTHER        -> sfx

\* mimetypes.guess_type(...) answers an image/* type for these suffixes
MimeImage(sfx) == Lower(sfx) \in {".ico", ".jpg", ".jpeg", ".png", ".bmp",
                                  ".gif", ".tiff", ".svg", ".webp"}

\* A directory entry or a Source path: its name, what it is, its suffix.
Entry(n, k, sfx) == [name |-> n, kind |-> k, suffix |-> sfx]

\* A Source: a path with, for a directory, its entries; scanOk is FALSE
\* for a directory that cannot be listed.
Source(n, k, sfx, es, ok) ==
    [name |-> n, kind |-> k, suffix |-> sfx, entries |-> es, scanOk |-> ok]

SrcOneJpg == Source("/w/one.jpg", "file", ".jpg", {}, TRUE)
SrcIcon   == Source("/w/icon.ico", "file", ".ico", {}, TRUE)
SrcNotes  == Source("/w/notes.txt", "file", ".txt", {}, TRUE)
SrcGone   == Source("/w/gone", "missing", "", {}, TRUE)
SrcPics   == Source("/w/pics", "dir", "",
                    {Entry("/w/pics/p1.jpg", "file", ".jpg"),
                     Entry("/w/pics/p2.PNG", "file", ".PNG"),
                     Entry("/w/pics/p3.webp", "file", ".webp"),
                     Entry("/w/pics/p4.png", "file", ".png")}, TRUE)
SrcWeb    == Source("/w/web", "dir", "",
                    {Entry("/w/web/w1.webp", "file", ".webp"),
                     Entry("/w/web/readme.txt", "file", ".txt")}, TRUE)
SrcOdd    == Source("/w/odd", "dir", "",
                    {Entry("/w/odd/sub.jpg", "dir", ".jpg"),
                     Entry("/w/odd/x.txt", "file", ".txt")}, TRUE)
SrcLocked == Source("/w/locked", "dir", "",
                    {Entry("/w/locked/l1.jpg", "file", ".jpg")}, FALSE)

Catalogue ==
    {SrcOneJpg, SrcIcon, SrcNotes, SrcGone, SrcPics, SrcWeb, SrcOdd, SrcLocked}

\* is_image_file(file_path)
is_image_file(e) ==
    IF e.kind # "file" THEN FALSE
    ELSE IF Lower(e.suffix) \in IMAGE_EXTENSIONS THEN TRUE
    ELSE MimeImage(e.suffix)

\* _gather_valid_sources(sources): the paths that exist, in order
gather_valid_sources(srcs) == SelectSeq(srcs, LAMBDA s : s.kind # "missing")

\* _select_candidate_from_source(source): the paths it may return; the
\* empty set stands for None.  random.choice picks any element.
select_candidate_from_source(s) ==
    IF s.kind = "file"
    THEN IF is_image_file(s) THEN {s.name} ELSE {}
    ELSE IF s.kind = "dir"
    THEN IF s.scanOk
         THEN {e.name : e \in {x \in s.entries : is_image_file(x)}}
         ELSE {}
    ELSE {}

\* The all_images list WallpaperWorker.run builds for one source: glob
\* matches names, of files and directories alike, with the exact suffix.
gui_all_images(s) ==
    IF s.kind = "dir"
    THEN IF s.scanOk
         THEN {e.name : e \in {x \in s.entries : x.suffix \in {".jpg", ".png"}}}
         ELSE {}
    ELSE IF s.kind = "file" THEN {s.name}
    ELSE {}

\* random.shuffle(list): the orders it may leave the list in
shuffle(srcs) ==
    {[i \in 1..Len(srcs) |-> srcs[f[i]]] : f \in Permutations(1..Len(srcs))}

\* What each source of an order yields, as get_random_image_from_sources
\* and WallpaperWorker.run find it when they come to that source.
cli_yields(order) ==
    [i \in 1..Len(order) |-> select_candidate_from_source(order[i])]

gui_yields(order) == [i \in 1..Len(order) |-> gui_all_images(order[i])]

\* A scan that serves the fullest source, wherever the shuffle put it.
scan_sources_fullest(ys) ==
    LET I == {i \in 1..Len(ys) : ys[i] # {}}
    IN  IF I = {} THEN 0
        ELSE CHOOSE i \in I :
                 \A j \in I :
                     \/ Cardinality(ys[j]) < Cardinality(ys[i])
                     \/ Cardinality(ys[j]) = Cardinality(ys[i]) /\ i <= j

\* The loop "for source in ...: if candidate: return / break": the index
\* of the first source of the order that yields something, 0 when none does.
scan_sources(ys) ==
    LET I == {i \in 1..Len(ys) : ys[i] # {}}
    IN  IF I = {} THEN 0 ELSE CHOOSE i \in I : \A j \in I : i <= j

Selected(s, p) == [t |-> "path", src |-> s.name, path |-> p]
SelectFailed(why) == [t |-> why, src |-> NoKey, path |-> NoKey]

\* get_random_image_from_sources(sources)
CliSelect ==
    /\ selPc = "start"
    /\ selector' = "cli"
    /\ selPc' = "done"
    /\ LET valid == gather_valid_sources(selSources)
       IN  IF valid = <<>>
           THEN /\ selOrder' = valid
                /\ selResult' = SelectFailed("no_valid_sources")
           ELSE \E o \in shuffle(valid) :
                    /\ selOrder' = o
                    /\ LET k == scan_sources(cli_yields(o))
                       IN  IF k = 0
                           THEN selResult' = SelectFailed("no_images")
                           ELSE \E c \in select_candidate_from_source(o[k]) :
                                    selResult' = Selected(o[k], c)
    /\ UNCHANGED <<childVars, adapterVars, pluginVars, ops, selSources, histVars,
                   moreVars>>

\* WallpaperWorker.run, single monitor, from the collected sources on
GuiSelect ==
    /\ selPc = "start"
    /\ selector' = "gui"
    /\ selPc' = "done"
    /\ IF selSources = <<>>
       THEN /\ selOrder' = selSources
            /\ selResult' = SelectFailed("no_sources")
       ELSE \E o \in shuffle(selSources) :
                /\ selOrder' = o
                /\ LET k == scan_sources(gui_yields(o))
                   IN  IF k = 0
                       THEN selResult' = SelectFailed("no_images")
                       ELSE \E c \in gui_all_images(o[k]) :
                                selResult' = Selected(o[k], c)
    /\ UNCHANGED <<childVars, adapterVars, pluginVars, ops, selSources, histVars,
                   moreVars>>

\* The Source lists of a cycle: distinct paths, at most MaxSources of them.
SourceLists ==
    {s \in SeqsUpTo(Catalogue, MaxSources) :
        \A i, j \in 1..Len(s) : i # j => s[i] # s[j]}

InitSelect ==
    /\ NoChild
    /\ AdapterIdle
    /\ plugin = "local"
    /\ cfg = NoConfig
    /\ fs = [p \in Paths |-> "missing"]
    /\ fs0 = fs
    /\ dlDir = FALSE
    /\ blacklist = {}
    /\ runResult = NoRet
    /\ ops = <<>>
    /\ selector = "none"
    /\ selSources \in SourceLists
    /\ selOrder = <<>>
    /\ selPc = "start"
    /\ selResult = SelectFailed("unset")
    /\ NoHistory
    /\ NoMore

NextSelect == CliSelect \/ GuiSelect

SpecSelect == InitSelect /\ [][NextSelect]_vars

-----------------------------------------------------------------------------
(* Content Hash Store: HistoryManager, shared by the plugin processes *)

Urls == {"u1", "u2"}

\* The plugin processes that may use the store at the same time.
Procs == {"p1", "p2"}

\* hashlib.md5(...).hexdigest() of a URL and of the bytes of a file
Md5Url(u) == CASE u = "u1" -> "md5_u1" [] OTHER -> "md5_u2"

Md5(b) == CASE b = "bytes_a" -> "md5_a" [] OTHER -> "md5_b"

\* A row of the downloads table (id is its position).
Row(uh, ih) == [url_hash |-> uh, image_hash |-> ih]

\* seen_url(url)
seen_url(rows, u) == \E i \in 1..Len(rows) : rows[i].url_hash = Md5Url(u)

\* get_file_hash(filepath): open() raises when the file cannot be opened.
get_file_hash(f, p) ==
    IF CanOpen(f, p) THEN Md5(Content(p)) ELSE "raise"

\* The INSERT of add_entry in its transaction, under UNIQUE(url_hash):
\* a row with that url_hash makes it fail with IntegrityError.
history_insert(rows, row) ==
    IF \E i \in 1..Len(rows) : rows[i].url_hash = row.url_hash
    THEN [rows |-> rows, ok |-> FALSE]
    ELSE [rows |-> Append(rows, row), ok |-> TRUE]

\* The add_entry call a process is in, 0 when it is in none.
Pending(p) ==
    LET I == {i \in 1..Len(calls) : calls[i].proc = p /\ calls[i].st # "done"}
    IN  IF I = {} THEN 0 ELSE CHOOSE i \in I : TRUE

\* add_entry(url, image_path), up to the INSERT: the two hashes.  A file
\* that cannot be opened makes get_file_hash, and so add_entry, raise.
AddEntryBegin(p, u, path) ==
    /\ Len(calls) < MaxCalls
    /\ Pending(p) = 0
    /\ LET h == get_file_hash(fs, path)
           c == [proc |-> p, url |-> u, path |-> path,
                 recorded |-> seen_url(downloads, u),
                 image_hash |-> h,
                 st  |-> IF h = "raise" THEN "done" ELSE "insert",
                 res |-> IF h = "raise" THEN "raise" ELSE "pending"]
       IN  calls' = Append(calls, c)
    /\ UNCHANGED <<childVars, adapterVars, pluginVars, ops, selVars, downloads,
                   moreVars>>

\* add_entry, the transaction: INSERT and commit give True, IntegrityError
\* gives False.
AddEntryInsert(p) ==
    /\ Pending(p) # 0
    /\ LET k == Pending(p)
           r == history_insert(downloads,
                               Row(Md5Url(calls[k].url), calls[k].image_hash))
       IN  /\ downloads' = r.rows
           /\ calls' = [calls EXCEPT ![k].st = "done",
                                     ![k].res = IF r.ok THEN "True" ELSE "False"]
    /\ UNCHANGED <<childVars, adapterVars, pluginVars, ops, selVars, moreVars>>

InitHistory ==
    /\ NoChild
    /\ AdapterIdle
    /\ plugin = "wallhaven"
    /\ cfg = NoConfig
    /\ fs \in [Paths -> {"file", "missing", "unreadable"}]
    /\ fs0 = fs
    /\ dlDir = TRUE
    /\ blacklist = {}
    /\ runResult = NoRet
    /\ ops = <<>>
    /\ NoSelection
    /\ NoHistory
    /\ NoMore

NextHistory ==
    \/ \E p \in Procs, u \in Urls, path \in Paths : AddEntryBegin(p, u, path)
    \/ \E p \in Procs : AddEntryInsert(p)

SpecHistory == InitHistory /\ [][NextHistory]_vars

-----------------------------------------------------------------------------
(* wallhaven: _process_item over the items of successive runs *)

\* What requests.get(url) gives: the image (status 200), another status,
\* or an exception.
HttpOutcomes == {"200", "404", "exception"}

\* HistoryManager.add_entry as _process_item calls it: onDisk says
\* whether the file is still there when get_file_hash opens it.
item_add_entry(rows, u, onDisk, bytes) ==
    IF ~onDisk THEN [rows |-> rows, res |-> "raise"]
    ELSE LET r == history_insert(rows, Row(Md5Url(u), Md5(bytes)))
         IN  [rows |-> r.rows, res |-> IF r.ok THEN "True" ELSE "False"]

\* What _process_item leaves: the History rows, the files on disk, whether
\* the image was downloaded, and the value returned.
ItemOutcome(rows, disk, got, r) ==
    [rows |-> rows, disk |-> disk, got |-> got, ret |-> r]

\* WallhavenPlugin._process_item for an item whose path is u
process_item(u, http, rows, bl, disk, rem) ==
    IF seen_url(rows, u) THEN ItemOutcome(rows, disk, FALSE, FALSE)
    ELSE IF u \in disk THEN ItemOutcome(rows, disk, FALSE, FALSE)
    ELSE IF http # "200" THEN ItemOutcome(rows, disk, FALSE, FALSE)
    ELSE IF is_blacklisted(bl, Sha256(rem[u]))
    THEN ItemOutcome(rows, disk, TRUE, FALSE)
    ELSE IF \E i \in 1..Len(rows) : rows[i].image_hash = Md5(rem[u])
    THEN \* the file is unlinked, then add_entry is called on it: the
         \* exception is caught by the except clause of _process_item
         ItemOutcome(item_add_entry(rows, u, FALSE, rem[u]).rows, disk,
                     TRUE, FALSE)
    ELSE ItemOutcome(item_add_entry(rows, u, TRUE, rem[u]).rows,
                     disk \cup {u}, TRUE, TRUE)

\* One item of a search result is processed (in this run or a later one).
ProcessItem(u, http) ==
    /\ whCalls < MaxItems
    /\ whCalls' = whCalls + 1
    /\ LET o == process_item(u, http, downloads, blacklist, whDisk, remote)
       IN  /\ downloads' = o.rows
           /\ whDisk' = o.disk
           /\ fetched' = IF o.got THEN [fetched EXCEPT ![u] = @ + 1]
                         ELSE fetched
    /\ UNCHANGED <<childVars, adapterVars, pluginVars, ops, selVars, calls,
                   remote, besidesItems>>

\* A downloaded file is deleted locally (the user, _cleanup_old_files,
\* a reset).
DeleteLocal(u) ==
    /\ u \in whDisk
    /\ whDisk' = whDisk \ {u}
    /\ UNCHANGED <<childVars, adapterVars, pluginVars, ops, selVars, histVars,
                   remote, fetched, whCalls, besidesItems>>

\* A downloaded file is blacklisted from the review tab: process_files
\* records its hash and removes it.
BlacklistLocal(u) ==
    /\ u \in whDisk
    /\ blacklist' = blacklist \cup {Sha256(remote[u])}
    /\ whDisk' = whDisk \ {u}
    /\ UNCHANGED <<childVars, adapterVars, child, plugin, cfg, fs, fs0, dlDir,
                   runResult, ops, selVars, histVars, remote, fetched, whCalls,
                   besidesItems>>

\* The hash stores, either of which can fail at a query: its database
\* is locked, unreadable or corrupt.
Stores == {"blacklist", "history"}

\* _process_item with a failing store. is_blacklisted catches every
\* exception and answers False, as an empty table would. seen_url has no
\* try of its own and is called before the try block of _process_item:
\* its exception leaves _process_item.
process_item_down(down, u, http, rows, bl, disk, rem) ==
    IF down = "history"
        THEN [raised |-> TRUE, out |-> ItemOutcome(rows, disk, FALSE, FALSE)]
        ELSE [raised |-> FALSE,
              out |-> process_item(u, http, rows, {}, disk, rem)]

\* run() calls _process_queries, which calls _process_item, without a
\* try: an exception reaches PluginBase.main, which prints an error
\* result and exits with 1.
run_status(raised) == IF raised THEN "error" ELSE "success"

\* A run that finds one item, with one of the stores failing.
StoreDownRun(down, u, http) ==
    /\ whCalls < MaxItems
    /\ whCalls' = whCalls + 1
    /\ LET r == process_item_down(down, u, http, downloads, blacklist,
                                  whDisk, remote)
       IN  /\ downloads' = r.out.rows
           /\ whDisk' = r.out.disk
           /\ fetched' = IF r.out.got THEN [fetched EXCEPT ![u] = @ + 1]
                         ELSE fetched
           /\ whRun' = [down |-> down, status |-> run_status(r.raised)]
    /\ UNCHANGED <<childVars, adapterVars, pluginVars, ops, selVars, calls,
                   remote, gateVars, timerVars, loopVars, canvasVars, fit,
                   runner>>

InitItems ==
    /\ NoChild
    /\ AdapterIdle
    /\ plugin = "wallhaven"
    /\ cfg = NoConfig
    /\ fs = [p \in Paths |-> "missing"]
    /\ fs0 = fs
    /\ dlDir = TRUE
    /\ blacklist = {}
    /\ runResult = NoRet
    /\ ops = <<>>
    /\ NoSelection
    /\ NoHistory
    /\ remote \in [Urls -> {"bytes_a", "bytes_b"}]
    /\ whDisk = {}
    /\ fetched = [u \in Urls |-> 0]
    /\ whCalls = 0
    /\ NoGate
    /\ NoTimer
    /\ NoLate

NextItems ==
    \/ \E u \in Urls, http \in HttpOutcomes : ProcessItem(u, http)
    \/ \E u \in Urls : DeleteLocal(u)
    \/ \E u \in Urls : BlacklistLocal(u)
    \/ \E down \in Stores, u \in Urls, http \in HttpOutcomes :
           StoreDownRun(down, u, http)

SpecItems == InitItems /\ [][NextItems]_vars

-----------------------------------------------------------------------------
(* Schedule Gate: _should_run and the runs of the gated plugins *)

\* timedelta(hours=1), timedelta(days=1), timedelta(weeks=1), in hours
HourlyLen == 1
DailyLen  == 24
WeeklyLen == 168

\* config["interval"].lower(); "monthly" stands for any other string
Intervals == {"always", "hourly", "daily", "weekly", "monthly"}

GatedPlugins == {"wallhaven", "google_images", "stable_diffusion"}

\* The gate with >= in place of >.
wallhaven_should_run_inclusive(mk, interval, t) ==
    IF interval = "always" THEN TRUE
    ELSE IF mk.k = "missing" THEN TRUE
    ELSE IF mk.k = "corrupt" THEN TRUE
    ELSE IF interval = "hourly" THEN t - mk.at >= HourlyLen
    ELSE IF interval = "daily" THEN t - mk.at >= DailyLen
    ELSE IF interval = "weekly" THEN t - mk.at >= WeeklyLen
    ELSE FALSE

\* WallhavenPlugin._should_run: mk is what .last_run holds ("corrupt":
\* it exists and reading it or float() raises), t is datetime.now().
wallhaven_should_run(mk, interval, t) ==
    IF interval = "always" THEN TRUE
    ELSE IF mk.k = "missing" THEN TRUE
    ELSE IF mk.k = "corrupt" THEN TRUE
    ELSE IF interval = "hourly" THEN t - mk.at > HourlyLen
    ELSE IF interval = "daily" THEN t - mk.at > DailyLen
    ELSE IF interval = "weekly" THEN t - mk.at > WeeklyLen
    ELSE FALSE

\* GoogleImagesPlugin._should_run
google_should_run(mk, interval, t) ==
    IF interval = "always" THEN TRUE
    ELSE IF mk.k = "missing" THEN TRUE
    ELSE IF mk.k = "corrupt" THEN TRUE
    ELSE IF interval = "hourly" THEN t - mk.at > HourlyLen
    ELSE IF interval = "daily" THEN t - mk.at > DailyLen
    ELSE IF interval = "weekly" THEN t - mk.at > WeeklyLen
    ELSE FALSE

\* StableDiffusionPlugin._should_run: target_delta stays None for an
\* interval outside the three classes.
sd_should_run(mk, interval, t) ==
    IF interval = "always" THEN TRUE
    ELSE IF mk.k = "missing" THEN TRUE
    ELSE IF mk.k = "corrupt" THEN TRUE
    ELSE LET delta == t - mk.at
             target_delta == CASE interval = "hourly" -> HourlyLen
                               [] interval = "daily"  -> DailyLen
                               [] interval = "weekly" -> WeeklyLen
                               [] OTHER               -> 0
         IN  IF interval \in {"hourly", "daily", "weekly"}
             THEN delta > target_delta
             ELSE FALSE

should_run(pl, mk, interval, t) ==
    CASE pl = "wallhaven"     -> wallhaven_should_run(mk, interval, t)
      [] pl = "google_images" -> google_should_run(mk, interval, t)
      [] OTHER                -> sd_should_run(mk, interval, t)

\* How far the loop of a reset gets before an exception ends it: over
\* every entry, none, the images only.
ResetOutcomes == {"all", "none", "images"}

\* _perform_reset / the reset block of GoogleImagesPlugin.run: every
\* entry of the directory is removed, .last_run among them.
area_reset(rs, mk, ar) ==
    [marker |-> IF rs = "all" THEN MarkerMissing ELSE mk,
     area   |-> IF rs \in {"all", "images"} THEN <<>> ELSE ar]

\* The last n elements of a sequence.
LastN(s, n) == IF n >= Len(s) THEN s ELSE SubSeq(s, Len(s) - n + 1, Len(s))

\* WallhavenPlugin._cleanup_old_files counts every file, .last_run (the
\* newest) included, and removes the oldest beyond max_files.
wallhaven_cleanup(ar, mk, max) ==
    IF max = 0 THEN [marker |-> MarkerMissing, area |-> <<>>]
    ELSE [marker |-> mk, area |-> LastN(ar, max - 1)]

\* The _cleanup_old_files of google_images (*.jpg) and stable_diffusion
\* (*.png) count the images only.
images_cleanup(ar, mk, max) == [marker |-> mk, area |-> LastN(ar, max)]

\* What the real work of a run gives: no new image, one new image, or
\* (stable_diffusion) a model that fails to load.
WorkOutcomes(pl) ==
    IF pl = "stable_diffusion" THEN {"none", "one", "load_failed"}
    ELSE {"none", "one"}

\* What a run leaves: the marker, the area, its result, what the gate
\* decided ("none" when it was not reached) and the marker the gate read.
GateOutcome(mk, ar, st, gate, seen) ==
    [marker |-> mk, area |-> ar, status |-> st,
     path |-> IF st = "success" THEN "download_dir" ELSE NoKey,
     gate |-> gate, seen |-> seen]

\* WallhavenPlugin.run for a config without action: reset, gate, queries,
\* marker, cleanup.  id names the file a download creates.
wallhaven_gated_run(c, mk, t, ar, rs, w, id) ==
    LET r == IF c.reset THEN area_reset(rs, mk, ar)
             ELSE [marker |-> mk, area |-> ar]
    IN  IF ~c.force /\ ~wallhaven_should_run(r.marker, c.interval, t)
        THEN GateOutcome(r.marker, r.area, "success", "skip", r.marker)
        ELSE LET got == IF w = "one" THEN Append(r.area, id) ELSE r.area
                 cl  == wallhaven_cleanup(got, MarkerAt(t), c.maxFiles)
             IN  GateOutcome(cl.marker, cl.area, "success", "run", r.marker)

\* GoogleImagesPlugin.run: gate, reset, scrape, marker, cleanup; the
\* directory holds .last_run at the end, so glob("*") is not empty.
google_gated_run(c, mk, t, ar, rs, w, id) ==
    IF ~c.force /\ ~google_should_run(mk, c.interval, t)
    THEN GateOutcome(mk, ar, "success", "skip", mk)
    ELSE LET r   == IF c.reset THEN area_reset(rs, mk, ar)
                    ELSE [marker |-> mk, area |-> ar]
             got == IF w = "one" THEN Append(r.area, id) ELSE r.area
             cl  == images_cleanup(got, MarkerAt(t), c.maxFiles)
         IN  GateOutcome(cl.marker, cl.area, "success", "run", mk)

\* StableDiffusionPlugin.run: imports, reset, gate, model, generation,
\* marker, cleanup; error when nothing was generated.
sd_gated_run(c, mk, t, ar, rs, w, id) ==
    IF ~c.deps THEN GateOutcome(mk, ar, "error", "none", mk)
    ELSE LET r == IF c.reset THEN area_reset(rs, mk, ar)
                  ELSE [marker |-> mk, area |-> ar]
         IN  IF ~c.force /\ ~sd_should_run(r.marker, c.interval, t)
             THEN GateOutcome(r.marker, r.area, "success", "skip", r.marker)
             ELSE IF w = "load_failed"
             THEN GateOutcome(r.marker, r.area, "error", "run", r.marker)
             ELSE LET got == IF w = "one" THEN Append(r.area, id) ELSE r.area
                      cl  == images_cleanup(got, MarkerAt(t), c.maxFiles)
                  IN  GateOutcome(cl.marker, cl.area,
                                  IF w = "one" THEN "success" ELSE "error",
                                  "run", r.marker)

gated_run(pl, c, mk, t, ar, rs, w, id) ==
    CASE pl = "wallhaven"     -> wallhaven_gated_run(c, mk, t, ar, rs, w, id)
      [] pl = "google_images" -> google_gated_run(c, mk, t, ar, rs, w, id)
      [] OTHER                -> sd_gated_run(c, mk, t, ar, rs, w, id)

\* The saved config of a gated plugin: max_files is 1 or large; deps
\* says whether torch and diffusers can be imported.
GateConfigs ==
    {c \in [pl : GatedPlugins, interval : Intervals, maxFiles : {1, 100},
            deps : BOOLEAN] : c.pl # "stable_diffusion" => c.deps}

\* The config of one run: the saved config with the force and reset keys
\* the caller sets.
RunConfig(c, force, reset) ==
    [interval |-> c.interval, maxFiles |-> c.maxFiles, deps |-> c.deps,
     force |-> force, reset |-> reset]

\* One run() of the gated plugin.
GatedRun(force, reset, rs, w) ==
    /\ gRuns < MaxRuns
    /\ ~reset => rs = "all"
    /\ gRuns' = gRuns + 1
    /\ LET o == gated_run(gCfg.pl, RunConfig(gCfg, force, reset), marker, now,
                          area, rs, w, gRuns + 1)
       IN  /\ marker' = o.marker
           /\ area' = o.area
           /\ gRun' = [st |-> "done", force |-> force, reset |-> reset,
                       status |-> o.status, path |-> o.path, gate |-> o.gate,
                       seen |-> o.seen]
    /\ UNCHANGED <<baseVars, besidesGate, now, gCfg, gTicks>>

\* Time passes after a run, once; the time before the first run is in
\* the age of the marker at the start.
ClockAdvance(d) ==
    /\ gTicks < gRuns
    /\ gTicks' = gRuns
    /\ now' = now + d
    /\ UNCHANGED <<baseVars, besidesGate, marker, area, gCfg, gRun, gRuns>>

\* The ages, in hours, a marker may have at the start; -1 is a marker
\* written by a clock that was ahead.
StartAges == {-1, 0, 1, 2, 23, 24, 25, 167, 168, 169}

InitGate ==
    /\ NoChild
    /\ AdapterIdle
    /\ plugin = "wallhaven"
    /\ cfg = NoConfig
    /\ fs = [p \in Paths |-> "missing"]
    /\ fs0 = fs
    /\ dlDir = TRUE
    /\ blacklist = {}
    /\ runResult = NoRet
    /\ ops = <<>>
    /\ NoSelection
    /\ NoHistory
    /\ NoItems
    /\ marker \in {MarkerMissing, MarkerCorrupt}
                 \cup {MarkerAt(StartHour - a) : a \in StartAges}
    /\ now = StartHour
    /\ area \in {<<>>, <<0>>}
    /\ gCfg \in GateConfigs
    /\ gRun = NoGateRun
    /\ gRuns = 0
    /\ gTicks = 0
    /\ NoTimer
    /\ NoLate

NextGate ==
    \/ \E force, reset \in BOOLEAN, rs \in ResetOutcomes :
           \E w \in WorkOutcomes(gCfg.pl) : GatedRun(force, reset, rs, w)
    \/ \E d \in {1, 24} : ClockAdvance(d)

SpecGate == InitGate /\ [][NextGate]_vars

-----------------------------------------------------------------------------
(* The GUI: the wallpaper timer and WallpaperWorker *)

\* A WallpaperWorker thread: where its run() is (executing the k-th
\* enabled plugin, selecting and applying, done), whether the plugin
\* process it waits for never terminates, the sources collected, and the
\* status it logged.
Worker(at, k, hung, n, out) ==
    [pc |-> at, k |-> k, hung |-> hung, srcs |-> n, out |-> out]

NewWorker == Worker("plugins", 1, FALSE, 0, NoKey)

\* QThread.isRunning(): from start() until run() returns.
isRunning(w) == w.pc # "done"

\* _trigger_wallpaper_change without its isRunning check.
trigger_always_starts(ws, ref) ==
    [workers |-> Append(ws, NewWorker), ref |-> Len(ws) + 1]

\* _trigger_wallpaper_change: nothing when the referenced worker is
\* running; else a new worker is created, referenced and started.
trigger_wallpaper_change(ws, ref) ==
    IF ref # 0 /\ isRunning(ws[ref])
    THEN [workers |-> ws, ref |-> ref]
    ELSE [workers |-> Append(ws, NewWorker), ref |-> Len(ws) + 1]

\* The timer's timeout (or the first single shot) calls the slot on the
\* GUI thread.
TimerTick ==
    /\ tTicks < MaxTimerTicks
    /\ tTicks' = tTicks + 1
    /\ LET r == trigger_wallpaper_change(workers, wallpaper_worker)
       IN  /\ workers' = r.workers
           /\ wallpaper_worker' = r.ref
    /\ UNCHANGED <<baseVars, besidesTimer>>

\* WallpaperWorker.run, the plugin loop: execute_plugin returns for the
\* k-th enabled plugin, with a source (status success and a path) or
\* without (an error result, or an exception that is caught).  After the
\* last plugin the worker goes on to select, or ends with no sources.
WorkerPluginReturns(i, source) ==
    /\ i \in 1..Len(workers)
    /\ workers[i].pc = "plugins"
    /\ ~workers[i].hung
    /\ LET w == workers[i]
           n == IF source THEN w.srcs + 1 ELSE w.srcs
       IN  workers' = [workers EXCEPT ![i] =
               IF w.k < MaxPlugins THEN Worker("plugins", w.k + 1, FALSE, n, NoKey)
               ELSE IF n > 0 THEN Worker("select", w.k, FALSE, n, NoKey)
               ELSE Worker("done", w.k, FALSE, n, "no_sources")]
    /\ UNCHANGED <<baseVars, besidesTimer, wallpaper_worker, tTicks>>

\* The worker is in execute_plugin (subprocess.run, no timeout) on a
\* plugin process that never terminates.
PluginHangs(i) ==
    /\ i \in 1..Len(workers)
    /\ workers[i].pc = "plugins"
    /\ ~workers[i].hung
    /\ workers' = [workers EXCEPT ![i].hung = TRUE]
    /\ UNCHANGED <<baseVars, besidesTimer, wallpaper_worker, tTicks>>

\* WallpaperWorker.run, selection and set_wallpaper: every outcome, an
\* exception included, is logged and run() returns.
CycleOutcomes == {"changed", "set_failed", "no_images", "exception"}

WorkerSelects(i, out) ==
    /\ i \in 1..Len(workers)
    /\ workers[i].pc = "select"
    /\ workers' = [workers EXCEPT ![i].pc = "done", ![i].out = out]
    /\ UNCHANGED <<baseVars, besidesTimer, wallpaper_worker, tTicks>>

\* PluginExecutionDialog.start_run (Download Now, Reset & Run, Apply
\* Blacklist on the tab of the k-th enabled plugin): a PluginRunner is
\* created and started. The dialog is modal and its buttons are disabled
\* while its runner runs, so one runner at a time; nothing looks at
\* wallpaper_worker.
start_run(r, k) == [st |-> "running", k |-> k]

ManualRun(k) ==
    /\ runner.st # "running"
    /\ runner' = start_run(runner, k)
    /\ UNCHANGED <<baseVars, itemVars, gateVars, timerVars, loopVars,
                   canvasVars, fit, whRun>>

\* PluginRunner.run returns: execute_plugin_stream is exhausted, the
\* plugin process has exited.
RunnerFinishes ==
    /\ runner.st = "running"
    /\ runner' = [runner EXCEPT !.st = "done"]
    /\ UNCHANGED <<baseVars, itemVars, gateVars, timerVars, loopVars,
                   canvasVars, fit, whRun>>

InitTimer ==
    /\ NoChild
    /\ AdapterIdle
    /\ NoPlugin
    /\ NoItems
    /\ NoGate
    /\ NoTimer

NextTimer ==
    \/ TimerTick
    \/ \E i \in 1..MaxTimerTicks, source \in BOOLEAN :
           WorkerPluginReturns(i, source)
    \/ \E i \in 1..MaxTimerTicks : PluginHangs(i)
    \/ \E i \in 1..MaxTimerTicks, out \in CycleOutcomes : WorkerSelects(i, out)
    \/ \E k \in 1..MaxPlugins : ManualRun(k)
    \/ RunnerFinishes

SpecTimer == InitTimer /\ [][NextTimer]_vars

-----------------------------------------------------------------------------
(* The CLI's scheduling loop: cycle_dynamic_plugins, its wait, its watcher *)

\* wait_seconds, the interval of the command line, and the seconds a
\* numeric default_wait of the config asks for.
WaitSeconds == 2
ConfigWait == 1

\* What the default_wait key of a config can hold: nothing, a number,
\* a text that is no number, or a float infinity (.inf in YAML).
DefaultWaits == {"absent", "number", "text", "infinite"}

Targets == {"desktop", "lockscreen", "dual"}

\* How a cycle can go.
LoopOutcomes == {"set", "plugin_error", "no_sources", "no_candidate",
                 "setter_failed", "exception"}

\* load_config_file: yaml.safe_load(f) or {}, and {} when the load fails.
\* A file its writer has truncated and not yet filled gives {}.
load_config_file(f) ==
    IF f.st = "partial" THEN EmptyConfig ELSE Config(f.dw)

\* The outcomes that leave _execute_dynamic_cycle's try block by an
\* exception: set_random_wallpaper_from_sources and
\* set_dual_wallpaper_from_sources catch the ValueError of a selection
\* without candidate, the lock-screen branch does not.
cycle_raises(out, tg) ==
    \/ out = "exception"
    \/ out = "no_candidate" /\ tg = "lockscreen"

\* _execute_dynamic_cycle: the config it returns.
execute_dynamic_cycle(c, out, tg) ==
    IF cycle_raises(out, tg) THEN EmptyConfig ELSE c

\* int(config["default_wait"]) under except (ValueError, TypeError):
\* int() of a float infinity raises OverflowError, which is neither.
wait_raises(c) == c.dw = "infinite"

\* sleep_duration of _wait_for_next_cycle.
sleep_for(c) == IF c.dw = "number" THEN ConfigWait ELSE WaitSeconds

Polled(at, ev, w, why) == [pc |-> at, ev |-> ev, waited |-> w, wake |-> why]

\* A wait loop that does not look at the shutdown flag.
wait_poll_deaf(sd, ev, w, dur) ==
    IF ~(w < dur) THEN Polled("check", ev, w, "interval")
    ELSE IF ev THEN Polled("check", FALSE, w, "change")
    ELSE Polled("wait", ev, w + 1, "none")

\* One turn of the while loop of _wait_for_next_cycle:
\* change_event.wait(timeout=1.0) returns at once when the event is set.
wait_poll(sd, ev, w, dur) ==
    IF ~(w < dur) THEN Polled("check", ev, w, "interval")
    ELSE IF sd THEN Polled("check", ev, w, "shutdown")
    ELSE IF ev THEN Polled("check", FALSE, w, "change")
    ELSE Polled("wait", ev, w + 1, "none")

\* A filesystem event of the watched directory.
FsEvent(type, src, dest) == [type |-> type, src |-> src, dest |-> dest]

\* ConfigWatcher._process_event: the state of change_event after it.
process_event(ev, ce) ==
    IF ev.src = "config" THEN TRUE
    ELSE IF ev.type = "moved" /\ ev.dest = "config" THEN TRUE
    ELSE ce

\* while not shutdown_requested: cycle_count += 1, and the cycle loads the
\* config; otherwise the finally block stops the observer and the loop
\* returns.
LoopCheck ==
    /\ lpc = "check"
    /\ IF shutdown_requested
           THEN /\ lpc' = "returned"
                /\ observer' = "stopped"
                /\ UNCHANGED <<cycle_count, loaded>>
           ELSE /\ cycle_count < MaxCycles
                /\ cycle_count' = cycle_count + 1
                /\ lpc' = "cycle"
                /\ loaded' = load_config_file(cfgFile)
                /\ UNCHANGED observer
    /\ UNCHANGED <<baseVars, besidesLoop, shutdown_requested, change_event,
                   targets, sleep_duration, waited, wake, cfgFile, notes,
                   fileOps, recycles, writes>>

\* The cycle ends, and the loop enters the wait unless shutdown was
\* requested; computing sleep_duration can raise, which leaves the loop
\* through its finally block.
CycleEnd(out) ==
    /\ lpc = "cycle"
    /\ LET config == execute_dynamic_cycle(loaded, out, targets) IN
       IF shutdown_requested
           THEN /\ lpc' = "check"
                /\ UNCHANGED <<observer, sleep_duration, waited, wake>>
           ELSE IF wait_raises(config)
           THEN /\ lpc' = "raised"
                /\ observer' = "stopped"
                /\ UNCHANGED <<sleep_duration, waited, wake>>
           ELSE /\ lpc' = "wait"
                /\ sleep_duration' = sleep_for(config)
                /\ waited' = 0
                /\ wake' = "none"
                /\ UNCHANGED observer
    /\ UNCHANGED <<baseVars, besidesLoop, shutdown_requested, change_event,
                   cycle_count, targets, loaded, cfgFile, notes, fileOps,
                   recycles, writes>>

WaitPoll ==
    /\ lpc = "wait"
    /\ LET r == wait_poll(shutdown_requested, change_event, waited,
                          sleep_duration) IN
           /\ lpc' = r.pc
           /\ change_event' = r.ev
           /\ waited' = r.waited
           /\ wake' = r.wake
           /\ recycles' = IF r.wake = "change" THEN recycles + 1
                                               ELSE recycles
    /\ UNCHANGED <<baseVars, besidesLoop, shutdown_requested, observer,
                   cycle_count, targets, loaded, sleep_duration, cfgFile,
                   notes, fileOps, writes>>

\* signal_handler, on SIGINT or SIGTERM.
Signal ==
    /\ lpc \notin {"returned", "raised"}
    /\ ~shutdown_requested
    /\ shutdown_requested' = TRUE
    /\ UNCHANGED <<baseVars, besidesLoop, lpc, change_event, observer,
                   cycle_count, targets, loaded, sleep_duration, waited,
                   wake, cfgFile, notes, fileOps, recycles, writes>>

FileOp(f, ev, w) ==
    /\ cfgFile' = f
    /\ notes' = Append(notes, ev)
    /\ writes' = w
    /\ UNCHANGED <<baseVars, besidesLoop, lpc, shutdown_requested,
                   change_event, observer, cycle_count, targets, loaded,
                   sleep_duration, waited, wake, recycles>>

\* A writer opens the configuration file for writing, which truncates it.
WriteBegin(dw) ==
    /\ fileOps < MaxFileOps
    /\ cfgFile.st = "complete"
    /\ fileOps' = fileOps + 1
    /\ FileOp(File("partial", dw), FsEvent("modified", "config", "none"),
              writes + 1)

\* The writer writes its text and closes the file.
WriteEnd ==
    /\ cfgFile.st = "partial"
    /\ UNCHANGED fileOps
    /\ FileOp(File("complete", cfgFile.dw),
              FsEvent("modified", "config", "none"), writes)

\* A writer renames a finished temporary file onto the configuration file.
ReplaceConfig(dw) ==
    /\ fileOps < MaxFileOps
    /\ cfgFile.st = "complete"
    /\ fileOps' = fileOps + 1
    /\ FileOp(File("complete", dw), FsEvent("moved", "other", "config"),
              writes + 1)

\* Another file of the watched directory is written.
OtherFile ==
    /\ fileOps < MaxFileOps
    /\ fileOps' = fileOps + 1
    /\ FileOp(cfgFile, FsEvent("modified", "other", "none"), writes)

\* The observer thread hands the next event to the ConfigWatcher.
Deliver ==
    /\ observer = "running"
    /\ notes # <<>>
    /\ change_event' = process_event(Head(notes), change_event)
    /\ notes' = Tail(notes)
    /\ UNCHANGED <<baseVars, besidesLoop, lpc, shutdown_requested, observer,
                   cycle_count, targets, loaded, sleep_duration, waited,
                   wake, cfgFile, fileOps, recycles, writes>>

InitLoop ==
    /\ NoChild
    /\ AdapterIdle
    /\ plugin = "local"
    /\ cfg = NoConfig
    /\ fs = [p \in Paths |-> "missing"]
    /\ fs0 = fs
    /\ dlDir = FALSE
    /\ blacklist = {}
    /\ runResult = NoRet
    /\ ops = <<>>
    /\ NoSelection
    /\ NoHistory
    /\ NoItems
    /\ NoGate
    /\ NoTimer
    /\ NoCanvas
    /\ NoTail
    /\ lpc = "check"
    /\ shutdown_requested = FALSE
    /\ change_event = FALSE
    /\ observer = "running"
    /\ cycle_count = 0
    /\ targets \in Targets
    /\ loaded = EmptyConfig
    /\ sleep_duration = 0
    /\ waited = 0
    /\ wake = "start"
    /\ cfgFile \in {File("complete", dw) : dw \in DefaultWaits}
    /\ notes = <<>>
    /\ fileOps = 0
    /\ recycles = 0
    /\ writes = 0

NextLoop ==
    \/ LoopCheck
    \/ \E out \in LoopOutcomes : CycleEnd(out)
    \/ WaitPoll
    \/ Signal
    \/ \E dw \in DefaultWaits : WriteBegin(dw)
    \/ WriteEnd
    \/ \E dw \in DefaultWaits : ReplaceConfig(dw)
    \/ OtherFile
    \/ Deliver

SpecLoop == InitLoop /\ [][NextLoop]_vars

-----------------------------------------------------------------------------
(* The compositor: set_wallpaper_multi_monitor *)

\* The coordinates and sizes screeninfo reports, in units of a tile: a
\* monitor can lie left of or above the primary one, whose corner is (0, 0).
XCoords == {-2, 0}
YCoords == {-1, 0}
Widths  == {1, 2}
Heights == {1, 2}

\* {"x": m.x, "y": m.y, "w": m.width, "h": m.height}
Monitor(x, y, w, h) == [x |-> x, y |-> y, w |-> w, h |-> h]

Monitors ==
    {Monitor(x, y, w, h) : x \in XCoords, y \in YCoords,
                           w \in Widths, h \in Heights}

\* The lists screeninfo.get_monitors() can give; an empty list makes
\* set_wallpaper_multi_monitor return before it composes anything.
MonitorLists ==
    UNION {[1..n -> Monitors] : n \in 1..MaxMonitors}

min(S) == CHOOSE a \in S : \A b \in S : a <= b
max(S) == CHOOSE a \in S : \A b \in S : a >= b

\* A bounding box that takes the corner of the primary monitor for its own.
bounding_box_from_origin(ms) ==
    [min_x |-> 0,
     min_y |-> 0,
     w |-> max({ms[i].x + ms[i].w : i \in DOMAIN ms}),
     h |-> max({ms[i].y + ms[i].h : i \in DOMAIN ms})]

\* 2. Determine canvas bounding box
bounding_box(ms) ==
    LET min_x == min({ms[i].x : i \in DOMAIN ms})
        min_y == min({ms[i].y : i \in DOMAIN ms})
        max_x == max({ms[i].x + ms[i].w : i \in DOMAIN ms})
        max_y == max({ms[i].y + ms[i].h : i \in DOMAIN ms})
    IN  [min_x |-> min_x,
         min_y |-> min_y,
         w |-> max_x - min_x,
         h |-> max_y - min_y]

\* What the loop over the monitors leaves on the canvas for one monitor:
\* the tile, cropped to the monitor's size and pasted at the monitor's
\* position relative to the canvas, or nothing when the image failed.
Tile(st, x, y, w, h) == [st |-> st, x |-> x, y |-> y, w |-> w, h |-> h]

paste(m, c, ok) ==
    Tile(IF ok THEN "pasted" ELSE "blank", m.x - c.min_x, m.y - c.min_y,
         m.w, m.h)

\* Steps 1 to 3: the monitors are read and the black canvas is created;
\* n is the number of valid image paths.
ComputeCanvas(n) ==
    /\ canvas.st = "none"
    /\ LET b == bounding_box(monitors) IN
           canvas' = [BlankCanvas EXCEPT
                          !.st = "open", !.min_x = b.min_x,
                          !.min_y = b.min_y, !.w = b.w, !.h = b.h, !.n = n]
    /\ UNCHANGED <<baseVars, besidesCanvas, monitors>>

\* Step 4, one turn of the loop: for i, m in enumerate(monitors), until
\* the image paths run out.
PasteTile(ok) ==
    /\ canvas.st = "open"
    /\ Len(canvas.tiles) < Len(monitors)
    /\ Len(canvas.tiles) < canvas.n
    /\ canvas' = [canvas EXCEPT
                      !.tiles = Append(@, paste(monitors[Len(@) + 1],
                                                canvas, ok))]
    /\ UNCHANGED <<baseVars, besidesCanvas, monitors>>

\* if not abs_paths: none of the image paths exists, and the function
\* returns False before it reads the monitors.
NoValidPaths ==
    /\ canvas.st = "none"
    /\ canvas' = [canvas EXCEPT !.st = "returned", !.ret = "false"]
    /\ UNCHANGED <<baseVars, besidesCanvas, monitors>>

\* Steps 5 to 7, after the loop: canvas.save writes the spanned file (or
\* raises, which the outer except turns into False), the registry is set,
\* and SystemParametersInfoW applies the file; its result is returned.
finish_canvas(c, saved, result) ==
    IF ~saved
        THEN [c EXCEPT !.st = "returned", !.ret = "false"]
        ELSE [c EXCEPT !.st = "returned", !.file = TRUE, !.applied = TRUE,
                       !.ret = IF result THEN "true" ELSE "false"]

SaveAndApply(saved, result) ==
    /\ canvas.st = "open"
    /\ \/ Len(canvas.tiles) = Len(monitors)
       \/ Len(canvas.tiles) = canvas.n
    /\ canvas' = finish_canvas(canvas, saved, result)
    /\ UNCHANGED <<baseVars, besidesCanvas, monitors>>

InitCanvas ==
    /\ NoChild
    /\ AdapterIdle
    /\ plugin = "local"
    /\ cfg = NoConfig
    /\ fs = [p \in Paths |-> "missing"]
    /\ fs0 = fs
    /\ dlDir = FALSE
    /\ blacklist = {}
    /\ runResult = NoRet
    /\ ops = <<>>
    /\ NoSelection
    /\ NoHistory
    /\ NoItems
    /\ NoGate
    /\ NoTimer
    /\ NoLoop
    /\ NoTail
    /\ monitors \in MonitorLists
    /\ canvas = BlankCanvas

NextCanvas ==
    \/ \E n \in 1..MaxMonitors : ComputeCanvas(n)
    \/ \E ok \in BOOLEAN : PasteTile(ok)
    \/ NoValidPaths
    \/ \E saved, result \in BOOLEAN : SaveAndApply(saved, result)

SpecCanvas == InitCanvas /\ [][NextCanvas]_vars

-----------------------------------------------------------------------------
(* The compositor: cover-fit scaling and the centred crop *)

\* The widths and heights of images and monitors, in pixels.
PixelSizes == {1, 2, 3, 7, 15, 35}

\* The (iw, ih, new_w) of PixelSizes for which new_w / (iw / ih), computed
\* in IEEE 754 double precision as Python does, is below the exact
\* quotient new_w * ih / iw and below its integer part: 35 / (7 / 3) and
\* 35 / (35 / 15) give 14.999999999999998. For every other triple of
\* PixelSizes int() of the double is the integer part of the exact
\* quotient, and so is int(aspect_img * new_h) for all of them.
QuotientBelow == {<<7, 3, 35>>, <<35, 15, 35>>}

\* aspect_img > aspect_mon: two doubles nearest to two fractions of small
\* integers compare as the fractions do.
wider(iw, ih, mw, mh) == iw * mh > mw * ih

\* int(aspect_img * new_h)
scaled_w(iw, ih, new_h) == (iw * new_h) \div ih

\* int(new_w / aspect_img)
scaled_h(iw, ih, new_w) ==
    IF <<iw, ih, new_w>> \in QuotientBelow
        THEN (new_w * ih) \div iw - 1
        ELSE (new_w * ih) \div iw

\* Calculate "Cover" resize, then the box of the centre crop.
cover_fit(iw, ih, mw, mh) ==
    LET new_w == IF wider(iw, ih, mw, mh) THEN scaled_w(iw, ih, mh) ELSE mw
        new_h == IF wider(iw, ih, mw, mh) THEN mh ELSE scaled_h(iw, ih, mw)
    IN  [st |-> "fitted", iw |-> iw, ih |-> ih, mw |-> mw, mh |-> mh,
         new_w |-> new_w, new_h |-> new_h,
         left |-> (new_w - mw) \div 2, top |-> (new_h - mh) \div 2]

\* An image of iw x ih pixels opened for a monitor of mw x mh pixels.
Opened(iw, ih, mw, mh) ==
    [st |-> "opened", iw |-> iw, ih |-> ih, mw |-> mw, mh |-> mh,
     new_w |-> 0, new_h |-> 0, left |-> 0, top |-> 0]

\* The image is fitted to the monitor.
CoverFit ==
    /\ fit.st = "opened"
    /\ fit' = cover_fit(fit.iw, fit.ih, fit.mw, fit.mh)
    /\ UNCHANGED <<baseVars, besidesFit>>

InitFit ==
    /\ NoChild
    /\ AdapterIdle
    /\ plugin = "local"
    /\ cfg = NoConfig
    /\ fs = [p \in Paths |-> "missing"]
    /\ fs0 = fs
    /\ dlDir = FALSE
    /\ blacklist = {}
    /\ runResult = NoRet
    /\ ops = <<>>
    /\ NoSelection
    /\ NoHistory
    /\ NoItems
    /\ NoGate
    /\ NoTimer
    /\ NoLoop
    /\ NoCanvas
    /\ fit \in {Opened(iw, ih, mw, mh) : iw, ih, mw, mh \in PixelSizes}
    /\ NoStoreRun
    /\ NoRunner

NextFit == CoverFit

SpecFit == InitFit /\ [][NextFit]_vars

-----------------------------------------------------------------------------
(* Claims about the adapter and the parser *)

StreamDone  == mode = "stream" /\ pc = "done"
OneShotDone == mode = "oneshot" /\ pc = "done"

\* The child ran and left an exit code and a primary output.
ChildRan == cmd # "not_found" /\ spawnOk

LastItem == items[Len(items)]

\* C1: whatever the child does, execute_plugin returns normally and
\* execute_plugin_stream ends with a result item (a dict); a non-zero exit
\* code or an unparseable primary output always gives status "error".
C1_AdapterEndsWithResult ==
    /\ OneShotDone =>
          /\ ret.t # "raise"
          /\ (ChildRan /\ (exitCode # 0 \/ ~JsonDecodes(outChunks))) =>
                (ret.t = "dict" /\ ret.res.status = "error")
    /\ StreamDone =>
          /\ Len(items) > 0
          /\ LastItem.t = "dict"
          /\ (ChildRan /\ (exitCode # 0 \/ ~JsonDecodes(outChunks))) =>
                LastItem.res.status = "error"

\* The indices of the events of one kind, and the k-th log event.
EventsOf(kind) == {i \in 1..Len(events) : events[i].e = kind}

LogIndex(k) ==
    CHOOSE i \in EventsOf("log") :
        Cardinality({j \in EventsOf("log") : j <= i}) = k

\* The events after the k-th log event and before the next log event or
\* the terminal result: the events line k caused.
CausedBy(k) ==
    LET from == LogIndex(k)
        next == {j \in EventsOf("log") \cup EventsOf("finished") : j > from}
        to   == CHOOSE j \in next : \A m \in next : j <= m
    IN  SubSeq(events, from + 1, to - 1)

\* A line of the form  <prefix>::PROGRESS:: <percent> :: <message>, the
\* percent an integer within 0..100.
WellFormedProgress(l) ==
    /\ Len(l) = 4
    /\ l[2] = "PROGRESS"
    /\ IsIntText(StripPiece(l[3]))
    /\ IntOf(StripPiece(l[3])) \in 0..100

\* A line of the form  <prefix>::IMAGE_SAVED:: <path>.
WellFormedSaved(l) == Len(l) = 3 /\ l[2] = "IMAGE_SAVED"

\* C4: in streaming mode every diagnostic line is delivered, in order (the
\* k-th log event is the k-th line); a well-formed ::PROGRESS:: line causes
\* exactly one Progress(percent, message), an ::IMAGE_SAVED:: line exactly
\* one ArtifactSaved(path); exactly one terminal result is delivered, and
\* it is the last event.
C4_StreamOrderedAndComplete ==
    (StreamDone /\ ChildRan) =>
        /\ Cardinality(EventsOf("log")) >= Len(errLines)
        /\ \A k \in 1..Len(errLines) :
              LET l == errLines[k] IN
              /\ events[LogIndex(k)].line = StripLine(l)
              /\ WellFormedProgress(l) =>
                    CausedBy(k) = <<Progress(IntOf(StripPiece(l[3])),
                                             StripPiece(l[4]))>>
              /\ WellFormedSaved(l) =>
                    CausedBy(k) = <<ArtifactSaved(<<StripPiece(l[3])>>)>>
              /\ ~HasMarker(l, "PROGRESS") /\ ~HasMarker(l, "IMAGE_SAVED") =>
                    CausedBy(k) = <<>>
        /\ EventsOf("finished") = {Len(events)}
        /\ (errLines = <<LProgress, LSaved>> /\ exitCode = 0
                /\ outChunks = <<JsonDict(SuccessX)>>) =>
              events = << LogLine(StripLine(LProgress)), Progress(42, "halfway"),
                          LogLine(StripLine(LSaved)), ArtifactSaved(<<"/tmp/x.jpg">>),
                          Finished(SuccessX) >>

\* C4 witness: Scenario B has run to its end.
C4_Witness ==
    /\ StreamDone
    /\ errLines = <<LProgress, LSaved>>
    /\ outChunks = <<JsonDict(SuccessX)>>
    /\ exitCode = 0
    /\ Len(events) = 5

\* A ::PROGRESS:: line that is malformed: a field is missing, or the
\* percent is no integer, or it is out of range.
MalformedProgress(l) ==
    /\ HasMarker(l, "PROGRESS")
    /\ \/ Len(l) < 4
       \/ ~IsIntText(StripPiece(l[3]))
       \/ IntOf(StripPiece(l[3])) \notin 0..100

\* C5: every Progress event carries a percent within 0..100; a malformed
\* ::PROGRESS:: line emits no Progress event, is still delivered as a log
\* line, and the stream goes on to its terminal result.
C5_ProgressInRange ==
    /\ \A i \in EventsOf("progress") : events[i].pct \in 0..100
    /\ (StreamDone /\ ChildRan) =>
          /\ \A k \in 1..Len(errLines) :
                MalformedProgress(errLines[k]) =>
                    /\ events[LogIndex(k)].line = StripLine(errLines[k])
                    /\ CausedBy(k) = <<>>
          /\ EventsOf("finished") = {Len(events)}

-----------------------------------------------------------------------------
(* Claims about plugin runs *)

ChildExited == child = "exited" /\ runResult # NoRet

\* C2: run() returns a record whose status is "success" or "error", and a
\* "success" record holds a path that exists when run() returns (stated for
\* the configs whose limit is a number).
C2_RunReturnsStatusAndPath ==
    (ChildExited /\ cfg.limitOk) =>
        /\ runResult.t = "dict"
        /\ runResult.res.status \in {"success", "error"}
        /\ runResult.res.status = "success" =>
              /\ runResult.res.path # NoKey
              /\ OnDisk(fs, dlDir, runResult.res.path)

\* What the adapter handed to its caller, once it is done.
AdapterResult == IF mode = "oneshot" THEN ret ELSE LastItem

\* C3: the primary channel of a plugin process carries exactly one
\* serialized result and no diagnostic text, so the adapter reports the
\* result run() returned.
C3_PrimaryChannelOneBlob ==
    ChildExited =>
        /\ Len(outChunks) = 1
        /\ outChunks[1].k = "json_dict"
        /\ (pc = "done" /\ runResult.t = "dict") =>
              AdapterResult = PyDict(runResult.res)

\* process_files ran in this plugin run.
ProcessFilesRan ==
    /\ ChildExited
    /\ runResult.t = "dict"
    /\ runResult.res.message = "Blacklist processed"

Reported(text) == \E i \in 1..Len(errLines) : errLines[i] = <<text>>

\* C10: process_files handles every path: for a path that exists, the
\* file's hash is in the blacklist when the call returns and the file is
\* gone, unless its deletion failed and was reported; a missing path is
\* reported.
C10_ProcessFilesHandlesAll ==
    ProcessFilesRan =>
        \A i \in 1..Len(cfg.targets) :
            LET p == cfg.targets[i] IN
            /\ PathExists(fs0, p) =>
                  /\ is_blacklisted(blacklist, Sha256(Content(p)))
                  /\ ~PathExists(fs, p) \/ Reported(MsgRemoveError(p))
            /\ ~PathExists(fs0, p) => Reported(MsgNotFound(p))

-----------------------------------------------------------------------------
(* Claims about the blacklist store *)

LastOp == ops[Len(ops)]

-----------------------------------------------------------------------------
(* Claims about fair selection *)

SelectionReturned == selPc = "done" /\ selResult.t = "path"

\* The first source of an order that has a candidate, 0 when none has.
FirstWithCandidate(order) ==
    LET I == {i \in 1..Len(order) : select_candidate_from_source(order[i]) # {}}
    IN  IF I = {} THEN 0 ELSE CHOOSE i \in I : \A j \in I : i <= j

\* C6: whenever selection returns, the order scanned is a permutation of
\* the Source list (of its existing paths), and the result is a candidate
\* (the Source file itself when it is an image, or an image file directly
\* inside the Source directory) of the first Source of that order having
\* at least one candidate; it is never drawn from another Source.
C6_ShuffleThenScan ==
    SelectionReturned =>
        /\ \/ selOrder \in shuffle(selSources)
           \/ selOrder \in shuffle(gather_valid_sources(selSources))
        /\ LET k == FirstWithCandidate(selOrder)
           IN  /\ k # 0
               /\ selResult.src = selOrder[k].name
               /\ selResult.path \in select_candidate_from_source(selOrder[k])

AllHaveCandidates(srcs) ==
    /\ srcs # <<>>
    /\ \A i \in 1..Len(srcs) : select_candidate_from_source(srcs[i]) # {}

\* The source that supplies the image when the shuffle gives this order.
Supplier(order) == order[scan_sources(cli_yields(order))]

\* C7: with N Sources that each have at least one candidate, each Source
\* supplies the selected image for exactly 1/N of the orders the shuffle
\* can give, whatever the number of candidates of each Source; and the
\* image get_random_image_from_sources returns comes from the supplier of
\* the order it scanned, the Source the shuffle put first.
C7_EqualShare ==
    LET valid  == gather_valid_sources(selSources)
        N      == Len(valid)
        orders == shuffle(valid)
    IN  AllHaveCandidates(valid) =>
            /\ \A i \in 1..N :
                   Cardinality({o \in orders : Supplier(o) = valid[i]}) * N
                       = Cardinality(orders)
            /\ (selPc = "done" /\ selector = "cli") =>
                   /\ selOrder \in orders
                   /\ selResult.t = "path"
                   /\ selResult.src = Supplier(selOrder).name
                   /\ selResult.src = selOrder[1].name

\* C7 witness: three Sources holding one, one and three candidates; the
\* single-file Source is the one that supplied the image.
C7_Witness ==
    /\ selPc = "done"
    /\ selector = "cli"
    /\ Len(selSources) = 3
    /\ AllHaveCandidates(gather_valid_sources(selSources))
    /\ \E i, j \in 1..3 : selSources[i] = SrcPics /\ selSources[j] = SrcOneJpg
    /\ selSources[1] = SrcPics
    /\ selResult = Selected(SrcOneJpg, "/w/one.jpg")

-----------------------------------------------------------------------------
(* Claims about the History store *)

RowsFor(u) == {i \in 1..Len(downloads) : downloads[i].url_hash = Md5Url(u)}

AtMostOneRowPerUrl == \A u \in Urls : Cardinality(RowsFor(u)) <= 1

\* An add_entry call that has returned or raised, made when its URL was
\* already in the store.
SecondAdd(k) == calls[k].st = "done" /\ calls[k].recorded

\* C8: whatever the add_entry calls of the processes and their
\* interleaving, the store holds at most one row per url_hash; and an
\* add_entry for a URL already recorded leaves exactly one row for it and
\* returns False, it does not raise.
C8_AddEntryIdempotent ==
    /\ AtMostOneRowPerUrl
    /\ \A k \in 1..Len(calls) :
           SecondAdd(k) =>
               /\ Cardinality(RowsFor(calls[k].url)) = 1
               /\ calls[k].res = "False"

-----------------------------------------------------------------------------
(* Claims about wallhaven's downloads *)

\* C11: while the History store is not reset, each remote URL is
\* downloaded at most once over the runs, also after its file has been
\* deleted locally.
C11_DownloadedAtMostOnce == \A u \in Urls : fetched[u] <= 1

-----------------------------------------------------------------------------
(* Claims about the schedule gate *)

TimedIntervals == {"hourly", "daily", "weekly"}

IntervalLen(i) ==
    CASE i = "hourly" -> HourlyLen
      [] i = "daily"  -> DailyLen
      [] OTHER        -> WeeklyLen

\* A step that is one run() of the gated plugin.
IsGatedRun == gRuns' = gRuns + 1

\* The marker is readable and its age is not greater than the interval.
NotElapsed(mk, i, t) ==
    /\ i \in TimedIntervals
    /\ mk.k = "time"
    /\ ~(t - mk.at > IntervalLen(i))

\* C12: in wallhaven, google_images and stable_diffusion the gate is the
\* same function, and for hourly (1h), daily (24h) and weekly (7d) a run
\* that reaches the gate does real work iff force is set, or the marker
\* the gate reads is missing or unreadable, or its age is greater than
\* the interval length.
C12_GateDecision ==
    [][ (IsGatedRun /\ gRun'.gate # "none" /\ gCfg.interval \in TimedIntervals) =>
            /\ gRun'.gate = "run" <=>
                   \/ gRun'.force
                   \/ gRun'.seen.k \in {"missing", "corrupt"}
                   \/ now - gRun'.seen.at > IntervalLen(gCfg.interval)
            /\ \A pl \in GatedPlugins, i \in Intervals :
                   should_run(pl, gRun'.seen, i, now)
                       = should_run(gCfg.pl, gRun'.seen, i, now)
      ]_vars

\* C12 witness: daily, not forced, the marker 23 hours old: the run skips.
C12_Witness ==
    /\ gRun.st = "done"
    /\ gRun.gate = "skip"
    /\ ~gRun.force
    /\ gCfg.interval = "daily"
    /\ gRun.seen = MarkerAt(now - 23)
    /\ marker = gRun.seen

\* C13: when the interval has not elapsed and force is not set, run() is
\* a no-op success whatever the other keys (reset included): it returns
\* the output path, no file is created or deleted, and the marker is not
\* rewritten.
C13_SkippedRunIsNoOp ==
    [][ (IsGatedRun /\ ~gRun'.force /\ gCfg.deps
            /\ NotElapsed(marker, gCfg.interval, now)) =>
            /\ gRun'.status = "success"
            /\ gRun'.path = "download_dir"
            /\ area' = area
            /\ marker' = marker
      ]_vars

-----------------------------------------------------------------------------
(* Claims about the GUI's timer *)

Running == {i \in 1..Len(workers) : isRunning(workers[i])}

IsTimerTick == tTicks' = tTicks + 1

\* C14: at most one WallpaperWorker runs at any time; a tick that fires
\* while a worker runs starts none and leaves nothing queued (no worker
\* is started when a worker finishes), and a tick that fires when none
\* runs starts exactly one.
C14_OneWorkerInFlight ==
    [][ /\ Cardinality(Running') <= 1
        /\ (IsTimerTick /\ Running # {}) => workers' = workers
        /\ (IsTimerTick /\ Running = {}) =>
               /\ Len(workers') = Len(workers) + 1
               /\ Running' = {Len(workers')}
        /\ ~IsTimerTick => Len(workers') = Len(workers)
      ]_vars

\* C14 witness: three ticks; the second fired while the first worker ran
\* and was dropped, the third started the second worker.
C14_Witness ==
    /\ tTicks = 3
    /\ Len(workers) = 2
    /\ workers[1].pc = "done"
    /\ workers[2].pc = "plugins"
    /\ wallpaper_worker = 2

\* C15: a plugin process that never terminates stalls only its cycle: a
\* later timer tick still starts a new cycle.
C15_HungPluginStallsOneCycle ==
    [][ (IsTimerTick /\ \E i \in 1..Len(workers) : workers[i].hung) =>
            Len(workers') = Len(workers) + 1
      ]_vars

-----------------------------------------------------------------------------
(* Claims about the CLI's scheduling loop *)

\* The cycle in flight has ended with this step.
CycleEnds == lpc = "cycle" /\ lpc' # "cycle"

\* A new cycle starts with this step.
CycleStarts == cycle_count' = cycle_count + 1

\* C16: no cycle outcome terminates the scheduling loop: while shutdown is
\* not requested, the loop goes from every cycle that ends to the wait, and
\* from the wait to the next cycle.
C16_CycleProceedsToWait ==
    [][~shutdown_requested =>
          /\ CycleEnds => lpc' = "wait"
          /\ lpc = "wait" => lpc' \in {"wait", "check"}
          /\ lpc = "check" => lpc' \in {"check", "cycle"}]_vars

\* C17: once the shutdown flag is set no further cycle starts: the cycle
\* in flight runs to its end and is not followed by a wait, a wait in
\* progress waits no further second and ends at its next poll, and the
\* loop returns only with the config watcher stopped.
C17_CooperativeShutdown ==
    [][shutdown_requested =>
          /\ ~CycleStarts
          /\ lpc = "cycle" => lpc' \in {"cycle", "check"}
          /\ lpc = "wait" =>
                 \/ lpc' = "wait" /\ waited' = waited
                 \/ lpc' = "check"
          /\ lpc = "check" => lpc' \in {"check", "returned"}
          /\ lpc' = "returned" => observer' = "stopped"]_vars

\* C17: a loop that was told to shut down during its wait after a cycle,
\* left the wait at the poll, stopped the watcher and returned.
C17_Witness ==
    /\ lpc = "returned"
    /\ shutdown_requested
    /\ wake = "shutdown"
    /\ observer = "stopped"
    /\ cycle_count >= 1

\* The event the observer hands over next is about the config file.
AboutConfig(ev) ==
    \/ ev.src = "config"
    \/ ev.type = "moved" /\ ev.dest = "config"

\* The observer hands an event to the watcher with this step.
Delivers == notes # <<>> /\ notes' = Tail(notes)

\* C18: while shutdown is not requested, a detected change of the config
\* file (change_event set) is followed by a new cycle that reloads the
\* config: the cycle in flight is followed by the wait, the wait ends at
\* its next poll, and the cycle that starts loads the file; an event for
\* another file leaves change_event as it is, and a wait is cut short
\* only with change_event set.
C18_ChangeFollowedByCycle ==
    [][/\ (change_event /\ ~shutdown_requested) =>
              /\ CycleEnds => lpc' = "wait"
              /\ (lpc = "wait" /\ (lpc' # "wait" \/ waited' # waited)) =>
                     lpc' = "check"
              /\ lpc = "check" => lpc' \in {"check", "cycle"}
       /\ CycleStarts => loaded' = load_config_file(cfgFile)
       /\ (Delivers /\ ~AboutConfig(Head(notes))) =>
              change_event' = change_event
       /\ (lpc = "wait" /\ wake' = "change") => change_event]_vars

\* C19: the notifications of one write of the config file cause one
\* re-cycle (the waits cut short by a change never outnumber the writes),
\* and no cycle starts on a file whose writer is half way through it.
C19_OneRecyclePerWrite ==
    /\ [](recycles <= writes)
    /\ [][CycleStarts => cfgFile.st = "complete"]_vars

-----------------------------------------------------------------------------
(* Claims about the compositor *)

Composed == canvas.st \in {"open", "returned"} /\ canvas.n > 0

\* The rectangle of monitor i relative to the canvas's corner.
Placed(i) ==
    [x |-> monitors[i].x - canvas.min_x, y |-> monitors[i].y - canvas.min_y,
     w |-> monitors[i].w, h |-> monitors[i].h]

\* Two monitors of equal height, one right beside the other.
SideBySide(a, b) ==
    /\ a.y = b.y
    /\ a.h = b.h
    /\ b.x = a.x + a.w

\* C20: the canvas is the bounding rectangle of the monitor rectangles:
\* every monitor's rectangle at (x - min_x, y - min_y) lies inside it and
\* each of its four edges is touched by a monitor; one monitor gives a
\* canvas of that monitor's size, two equal-height side-by-side monitors
\* give the sum of the widths and the shared height; and every tile is
\* pasted at its monitor's rectangle.
C20_CanvasIsBoundingBox ==
    Composed =>
        /\ \A i \in DOMAIN monitors :
               /\ Placed(i).x >= 0
               /\ Placed(i).y >= 0
               /\ Placed(i).x + Placed(i).w <= canvas.w
               /\ Placed(i).y + Placed(i).h <= canvas.h
        /\ \E i \in DOMAIN monitors : Placed(i).x = 0
        /\ \E i \in DOMAIN monitors : Placed(i).y = 0
        /\ \E i \in DOMAIN monitors : Placed(i).x + Placed(i).w = canvas.w
        /\ \E i \in DOMAIN monitors : Placed(i).y + Placed(i).h = canvas.h
        /\ Len(monitors) = 1 =>
               canvas.w = monitors[1].w /\ canvas.h = monitors[1].h
        /\ (/\ Len(monitors) = 2
            /\ \/ SideBySide(monitors[1], monitors[2])
               \/ SideBySide(monitors[2], monitors[1])) =>
               /\ canvas.w = monitors[1].w + monitors[2].w
               /\ canvas.h = monitors[1].h
        /\ \A i \in DOMAIN canvas.tiles :
               /\ canvas.tiles[i].x = Placed(i).x
               /\ canvas.tiles[i].y = Placed(i).y
               /\ canvas.tiles[i].w = Placed(i).w
               /\ canvas.tiles[i].h = Placed(i).h

\* C20 witness: a monitor left of the primary one and the primary one,
\* of equal height and side by side, composed with both tiles pasted.
C20_Witness ==
    /\ Composed
    /\ monitors = <<Monitor(-2, 0, 2, 1), Monitor(0, 0, 1, 1)>>
    /\ canvas.w = 3
    /\ canvas.h = 1
    /\ Len(canvas.tiles) = 2
    /\ canvas.tiles[1].st = "pasted"
    /\ canvas.tiles[2].st = "pasted"

-----------------------------------------------------------------------------
(* Claims about cover-fit scaling *)

\* C21: cover-fit scaling gives new_w >= mw and new_h >= mh with at least
\* one of them equal, so the centred crop box (left, top, left + mw,
\* top + mh) lies inside the scaled image.
C21_CoverFitCovers ==
    fit.st = "fitted" =>
        /\ fit.new_w >= fit.mw
        /\ fit.new_h >= fit.mh
        /\ fit.new_w = fit.mw \/ fit.new_h = fit.mh
        /\ fit.left >= 0
        /\ fit.top >= 0
        /\ fit.left + fit.mw <= fit.new_w
        /\ fit.top + fit.mh <= fit.new_h

\* The tiles the loop has placed on the canvas.
PlacedTiles == {i \in DOMAIN canvas.tiles : canvas.tiles[i].st = "pasted"}

\* C22: an image that fails leaves its monitor's area blank and the loop
\* goes on with the remaining monitors; when compositing ends with no
\* image placed at all it returns failure, has written no canvas file and
\* has applied no wallpaper.
C22_NothingPlacedIsFailure ==
    /\ canvas.st = "open" =>
           \A i \in DOMAIN canvas.tiles :
               canvas.tiles[i].st \in {"pasted", "blank"}
    /\ (canvas.st = "returned" /\ PlacedTiles = {}) =>
           /\ canvas.ret = "false"
           /\ ~canvas.file
           /\ ~canvas.applied

-----------------------------------------------------------------------------
(* Claims about failing stores and the process boundary *)

\* C23: a failure of a hash store never fails a plugin run: with the
\* blacklist or the History failing, the run ends with its normal result.
C23_StoreFailureNeverFailsRun ==
    whRun.down # "none" => whRun.status = "success"

\* run() raised in the plugin process that has exited.
RunRaised == child = "exited" /\ runResult = PyRaise

\* C24: an exception raised inside run() is converted at the process
\* boundary into exactly one structured result with status "error" and a
\* message, the last thing on the primary channel, and the process exits
\* with code 1; in the direct entry point and under --run-plugin alike.
C24_ExceptionBecomesErrorResult ==
    RunRaised =>
        /\ Cardinality({i \in DOMAIN outChunks :
                            outChunks[i].k = "json_dict"}) = 1
        /\ Len(outChunks) >= 1
        /\ outChunks[Len(outChunks)].k = "json_dict"
        /\ outChunks[Len(outChunks)].res.status = "error"
        /\ outChunks[Len(outChunks)].res.message # NoKey
        /\ exitCode = 1

\* C24 witness: wallhaven's run() raised on a limit that is no number, in
\* a process started through the direct entry point.
C24_Witness ==
    /\ RunRaised
    /\ cmd = "dev"
    /\ plugin = "wallhaven"
    /\ ~cfg.limitOk
    /\ exitCode = 1

-----------------------------------------------------------------------------
(* Claims about Sources that cannot be scanned *)

\* A Source of the cycle is a directory whose scan raises.
SomeScanFails == \E i \in 1..Len(selSources) :
                     selSources[i].kind = "dir" /\ ~selSources[i].scanOk

\* Another Source of the cycle has a candidate.
SomeCandidate == \E i \in 1..Len(selSources) :
                     select_candidate_from_source(selSources[i]) # {}

\* C25: a Source whose scan raises is skipped and the scan goes on with
\* the remaining Sources, in the CLI selector and in the GUI worker alike:
\* if another Source has a candidate, the cycle selects an image, and not
\* from the Source that could not be scanned.
C25_FailedScanIsSkipped ==
    (selPc = "done" /\ SomeScanFails /\ SomeCandidate) =>
        /\ selResult.t = "path"
        /\ \A i \in 1..Len(selSources) :
               selSources[i].name = selResult.src => selSources[i].scanOk

-----------------------------------------------------------------------------
(* Claims about what rewrites the last-run marker *)

\* One run() of the gated plugin ends in this step.
RunEnds == gRuns' = gRuns + 1

\* C26: the last-run marker is rewritten to the current time only by a
\* run that completed real work successfully: a skipped run never
\* rewrites it, and a run that returns status "error" leaves it unchanged.
C26_MarkerOnlyBySuccessfulWork ==
    [][RunEnds =>
         /\ gRun'.status = "error" => marker' = marker
         /\ gRun'.gate = "skip" =>
                (marker' = marker \/ marker' # MarkerAt(now))
         /\ (marker' # marker /\ marker' = MarkerAt(now)) =>
                (gRun'.gate = "run" /\ gRun'.status = "success")]_vars

-----------------------------------------------------------------------------
(* Claims about duplicate content *)

\* This step downloads u, a URL not in History, and gets a file whose
\* content hash History holds (and the Blacklist does not).
DuplicateFetched(u) ==
    /\ fetched'[u] = fetched[u] + 1
    /\ ~seen_url(downloads, u)
    /\ \E i \in 1..Len(downloads) : downloads[i].image_hash = Md5(remote[u])
    /\ ~is_blacklisted(blacklist, Sha256(remote[u]))

\* C27: when wallhaven downloads, from a URL not yet in History, a file
\* whose content hash is already in History, it removes the file and
\* records the URL in History, so that seen_url reports the URL as seen in
\* every later run.
C27_DuplicateContentRecordsUrl ==
    [][\A u \in Urls :
           DuplicateFetched(u) =>
               (u \notin whDisk' /\ seen_url(downloads', u))]_vars

-----------------------------------------------------------------------------
(* Claims about an interval outside the known classes *)

\* C28: in every gated plugin, for an interval class outside {always,
\* hourly, daily, weekly} and a readable marker, the gate answers
\* do-not-run whatever the marker's age; so once the marker is written, a
\* run of such a plugin does real work only when force is set.
C28_UnknownIntervalNeverRuns ==
    /\ \A pl \in GatedPlugins, a \in StartAges \cup {1000} :
           ~should_run(pl, MarkerAt(now - a), "monthly", now)
    /\ [][ (IsGatedRun /\ gCfg.interval \notin
                {"always", "hourly", "daily", "weekly"}
              /\ marker.k = "time" /\ ~gRun'.force) =>
               gRun'.gate # "run" ]_vars

-----------------------------------------------------------------------------
(* Claims about what process_files deletes *)

\* C29: process_files never deletes a file unless that file's content
\* hash has been recorded in the Blacklist: if hashing the file or
\* writing the store fails, the file is left on disk.
C29_DeletedOnlyIfRecorded ==
    ProcessFilesRan =>
        \A i \in 1..Len(cfg.targets) :
            LET p == cfg.targets[i] IN
            (PathExists(fs0, p) /\ ~PathExists(fs, p)) =>
                is_blacklisted(blacklist, Sha256(Content(p)))

-----------------------------------------------------------------------------
(* Claims about concurrent runs of one plugin *)

\* The processes of the k-th enabled plugin that are alive: those a
\* WallpaperWorker waits for in execute_plugin, and the one the manual
\* PluginRunner streams from.
AliveProcesses(k) ==
    Cardinality({i \in 1..Len(workers) :
                     workers[i].pc = "plugins" /\ workers[i].k = k})
    + (IF runner.st = "running" /\ runner.k = k THEN 1 ELSE 0)

\* C30: at most one process of a given plugin is alive at any time,
\* across scheduled cycles (WallpaperWorker) and manual runs
\* (PluginRunner).
C30_OneProcessPerPlugin ==
    \A k \in 1..MaxPlugins : AliveProcesses(k) <= 1

=============================================================================
